---------------------------- MODULE Spec2Model ----------------------------
(***************************************************************************)
(* Model of the transaction processing and derivation engine of            *)
(* server/core/src/server/storage.ts (class TServerStorage).               *)
(*                                                                         *)
(* The module holds several specifications over one list of variables.     *)
(* Each specification drives one group of variables and leaves the others  *)
(* at their initial value:                                                 *)
(*   SpecScope, SpecScopeFair  the apply-if scope serializer under         *)
(*                             concurrent processTxes calls                *)
(*   SpecModel                 the model ledger and its hash chain         *)
(*   Spec                      processTxes on the document store           *)
(*   SpecParts                 verifyApplyIf and the routeTx calls of one  *)
(*                             processTxes call, on given stores           *)
(*   SpecBackup                backup, restore and compaction runs of      *)
(*                             server/backup/src/backup.ts on a server     *)
(*                             whose documents change between the runs     *)
(*   SpecRun, SpecRunFair      one backup run from await to await, with    *)
(*                             its timer and rejected server calls         *)
(*   SpecRetry                 the retry loop of one restore run           *)
(*   SpecIndex, SpecIndexFair  the passes of IndexedFieldStage.collect     *)
(*                             over a fixed set of documents               *)
(*   SpecLog                   processTxes on batches with transactions    *)
(*                             of the transient domain and of the          *)
(*                             derived-transaction space                   *)
(***************************************************************************)
EXTENDS Integers, Sequences, FiniteSets, TLC

VARIABLES
  \* ---- scope serializer (TServerStorage.scopes and the calls in flight)
  scopes,     \* this.scopes: scope -> promise, NoPromise when the key is absent
  waiters,    \* reactions registered on pending promises, in registration order
  mq,         \* the microtask queue: calls whose `await scopes.get()` has settled
  spc,        \* position of each processTxes call
  applyTxes,  \* processTxes' local applyTxes of each call
  idx,        \* index in applyTxes of the TxApplyIf being verified
  onEnds,     \* processTxes' local onEnds of each call: the promises to resolve
  window,     \* TxApplyIf instances between start of evaluation and their onEnd
  \* ---- model ledger (TServerStorage.model, TServerStorage.hashes)
  model,      \* this.model: the model transactions, in order
  hashes,     \* this.hashes: the hash chain
  modelErr,   \* TRUE once addModelTx has thrown
  loadArg,    \* the hash the last loadModel call was given, NoCall before any
  loadResp,   \* what that call returned
  \* ---- document store (the domain adapters) and the last processTxes call
  docs,       \* the stored documents of all domains, by id
  docs0,      \* docs when the last call started
  model0,     \* this.model when the last call started
  hashes0,    \* this.hashes when the last call started
  callTxes,   \* the transactions the last call was given
  callEnd,    \* "none", "returned" or "thrown"
  failedAt,   \* the step that threw
  result,     \* the TxResult list the last call returned
  callDerived, \* the derived transactions the last call returned
  txLogged,   \* what the last call wrote to the transaction log (DOMAIN_TX)
  ftTx,       \* what the last call handed to fulltext.tx
  passes,     \* passes of the derivation recursion in the last call
  diverged,   \* TRUE when the recursion went beyond MaxPasses passes
  sent,       \* transactions the clients have sent so far
  lastId,     \* the highest document id a client has generated
  \* ---- one part of processTxes at work
  unit,       \* "none", "verify", "client" (routeTx of txToProcess) or "derived"
  unitIn,     \* the store and removedMap the part started on, the transactions it was given
  routeTxes,  \* the transactions passed to routeTx
  route,      \* the routeTx call when it returned or threw
  verified,   \* what verifyApplyIf returned and the queries it issued
  routePass,  \* the number of derived passes routed so far
  \* ---- a workspace and its backup storage (server/backup)
  server,     \* the documents of the workspace: id -> body and reported hash
  backupInfo, \* backup.json.gz with the files it names: snapshots and lastTxId
  lastTx,     \* the _id of the last transaction of the workspace
  clock,      \* Date.now() of the next backup run
  job,        \* the last run: what it was given and what it computed
  edits,      \* transactions, restore and compaction runs so far
  \* ---- runs taken step by step (server/backup, the indexing stage)
  running, \* one backup run in flight: its locals, the timer, backup.json.gz
  restoring, \* one restore run in flight: the retry loop over the domains
  indexing  \* the DocIndexState of the pipeline and one collect of the field stage

scopeVars == <<scopes, waiters, mq, spc, applyTxes, idx, onEnds, window>>
modelVars == <<model, hashes, modelErr, loadArg, loadResp>>

docVars == <<docs, docs0, model0, hashes0, callTxes, callEnd, failedAt, result, callDerived,
             txLogged, ftTx, passes, diverged, sent, lastId>>

partVars == <<unit, unitIn, routeTxes, route, verified, routePass>>

backupVars == <<server, backupInfo, lastTx, clock, job, edits>>

stepVars == <<running, restoring, indexing>>

vars == <<scopeVars, modelVars, docVars, partVars, backupVars, stepVars>>

\* What the actions of one group leave alone.
ScopeFrame == UNCHANGED <<modelVars, docVars, partVars, backupVars, stepVars>>
ModelFrame == UNCHANGED <<scopeVars, docVars, partVars, backupVars, stepVars>>
DocFrame == UNCHANGED <<scopeVars, loadArg, loadResp, partVars, backupVars, stepVars>>
PartFrame == UNCHANGED <<scopeVars, modelVars, docVars, backupVars, stepVars>>
BackupFrame == UNCHANGED <<scopeVars, modelVars, docVars, partVars, stepVars>>
RunFrame == UNCHANGED <<scopeVars, modelVars, docVars, partVars, backupVars, restoring, indexing>>
RetryFrame == UNCHANGED <<scopeVars, modelVars, docVars, partVars, backupVars, running, indexing>>
IndexFrame == UNCHANGED <<scopeVars, modelVars, docVars, partVars, backupVars, running, restoring>>

(***************************************************************************)
(* Bounds.                                                                 *)
(***************************************************************************)
MaxCalls == 3     \* concurrent processTxes calls
MaxApply == 2     \* TxApplyIf transactions in one client batch
MaxModel == 3     \* model transactions in the ledger
MaxModelTx == 2   \* distinct model transactions
MaxDocs == 3      \* document ids
MaxBatch == 3     \* transactions in one client batch
MaxPasses == 6    \* passes of the derivation recursion that are followed
MaxSent == 5      \* transactions the clients send over a run
MaxRoute == 3     \* transactions in a batch whose routing is followed
MaxQueries == 2   \* match (and notMatch) queries of a TxApplyIf
MaxTaskDocs == 3  \* document ids of the task domain
MaxSnapshots == 2 \* snapshots of a manifest
CompactFrom == MaxSnapshots \* the snapshots from which compactBackup compacts unforced (5)
MaxEdits == 2     \* transactions, restore and compaction runs
MaxClassified == 4 \* ids a scan that starts again reports

(***************************************************************************)
(* Scope serializer.                                                       *)
(***************************************************************************)
Procs == 1..MaxCalls
Scopes == {"s1", "s2"}
NoScope == "none"
NoPromise == <<>>

\* A TxApplyIf: its scope and, in its embedded list, at most one further
\* TxApplyIf (named by its scope, here the scope of the outer one).
ApplyIfs ==
  {[scope |-> s, txes |-> NoScope] : s \in Scopes} \cup
  {[scope |-> s, txes |-> s] : s \in Scopes}

RECURSIVE SeqsUpTo(_, _)
SeqsUpTo(S, n) ==
  IF n = 0 THEN {<<>>}
  ELSE LET shorter == SeqsUpTo(S, n - 1)
       IN shorter \cup {Append(s, x) : s \in {t \in shorter : Len(t) = n - 1}, x \in S}

Batches == SeqsUpTo(ApplyIfs, MaxApply)

\* A promise created by verifyApplyIf is named by the call and the index of
\* the TxApplyIf it was created for.
PromiseScope(pr) == applyTxes[pr[1]][pr[2]].scope

\* fillTxes on the embedded list of a passing TxApplyIf: an embedded
\* TxApplyIf is pushed to applyTxes, the array the loop is iterating.
fillTxesEmbedded(list, applyIf) ==
  IF applyIf.txes = NoScope THEN list
  ELSE Append(list, [scope |-> applyIf.txes, txes |-> NoScope])

\* `await this.scopes.get(applyIf.scope)`: a pending promise suspends the call
\* until it resolves; an absent key costs one microtask tick.
AwaitScope(p, list, k) ==
  LET pr == scopes[list[k].scope]
  IN IF pr # NoPromise
     THEN /\ waiters' = Append(waiters, <<p, pr>>)
          /\ spc' = [spc EXCEPT ![p] = "waiting"]
          /\ UNCHANGED mq
     ELSE /\ mq' = Append(mq, p)
          /\ spc' = [spc EXCEPT ![p] = "await"]
          /\ UNCHANGED waiters

\* processTxes is called: fillTxes, then the loop over applyTxes starts.
Start(p, batch) ==
  /\ mq = <<>>
  /\ spc[p] = "idle"
  /\ applyTxes' = [applyTxes EXCEPT ![p] = batch]
  /\ IF batch = <<>>
     THEN /\ spc' = [spc EXCEPT ![p] = "apply"]
          /\ UNCHANGED <<idx, mq, waiters>>
     ELSE /\ idx' = [idx EXCEPT ![p] = 1]
          /\ AwaitScope(p, batch, 1)
  /\ UNCHANGED <<scopes, onEnds, window>>
  /\ ScopeFrame

\* The continuation of verifyApplyIf after its first await: the scope is
\* taken without looking at the map again, and the first query is issued.
SetScope(p) == [scopes EXCEPT ![applyTxes[p][idx[p]].scope] = <<p, idx[p]>>]

RunMicrotask ==
  /\ mq # <<>>
  /\ LET p == Head(mq)
     IN /\ scopes' = SetScope(p)
        /\ window' = window \cup {<<p, idx[p]>>}
        /\ spc' = [spc EXCEPT ![p] = "eval"]
  /\ mq' = Tail(mq)
  /\ UNCHANGED <<waiters, applyTxes, idx, onEnds>>
  /\ ScopeFrame

\* One onEnd: scopes.delete(scope), resolve(null).
RECURSIVE DeleteAll(_, _)
DeleteAll(map, prs) ==
  IF prs = <<>> THEN map
  ELSE DeleteAll([map EXCEPT ![PromiseScope(Head(prs))] = NoPromise], Tail(prs))

InSeq(x, s) == \E i \in 1..Len(s) : s[i] = x

RECURSIVE SelectSeq2(_, _)
SelectSeq2(s, keep) ==
  IF s = <<>> THEN <<>>
  ELSE IF Head(s)[2] \in keep
       THEN <<Head(s)>> \o SelectSeq2(Tail(s), keep)
       ELSE SelectSeq2(Tail(s), keep)

RECURSIVE ProcsOf(_)
ProcsOf(s) == IF s = <<>> THEN <<>> ELSE <<Head(s)[1]>> \o ProcsOf(Tail(s))

SeqRange(s) == {s[i] : i \in 1..Len(s)}

\* Reactions of the promises resolved, in the order the promises are resolved
\* and, for one promise, in registration order.
RECURSIVE Woken(_, _)
Woken(prs, ws) ==
  IF prs = <<>> THEN <<>>
  ELSE ProcsOf(SelectSeq2(ws, {Head(prs)})) \o Woken(Tail(prs), ws)

\* The finally block of processTxes: every collected onEnd is invoked.
Finally(p, ends, outcome) ==
  LET woken == Woken(ends, waiters)
  IN /\ scopes' = DeleteAll(scopes, ends)
     /\ mq' = mq \o woken
     /\ waiters' = SelectSeq2(waiters, {w[2] : w \in SeqRange(waiters)} \ SeqRange(ends))
     /\ spc' = [q \in Procs |->
                  IF q = p THEN outcome
                  ELSE IF InSeq(q, woken) THEN "await" ELSE spc[q]]

\* processTxes returns or throws: its locals are gone.
Return(p) ==
  /\ applyTxes' = [applyTxes EXCEPT ![p] = <<>>]
  /\ idx' = [idx EXCEPT ![p] = 0]
  /\ onEnds' = [onEnds EXCEPT ![p] = <<>>]

\* The predicate queries of verifyApplyIf return: the result and onEnd go back
\* to processTxes, which goes on with the next TxApplyIf or with the batch.
EvalReturn(p, passed) ==
  /\ mq = <<>>
  /\ spc[p] = "eval"
  /\ LET list == IF passed
                 THEN fillTxesEmbedded(applyTxes[p], applyTxes[p][idx[p]])
                 ELSE applyTxes[p]
     IN /\ applyTxes' = [applyTxes EXCEPT ![p] = list]
        /\ onEnds' = [onEnds EXCEPT ![p] = Append(@, <<p, idx[p]>>)]
        /\ IF idx[p] < Len(list)
           THEN /\ idx' = [idx EXCEPT ![p] = @ + 1]
                /\ AwaitScope(p, list, idx[p] + 1)
           ELSE /\ spc' = [spc EXCEPT ![p] = "apply"]
                /\ UNCHANGED <<idx, mq, waiters>>
  /\ UNCHANGED <<scopes, window>>
  /\ ScopeFrame

\* A predicate query rejects: verifyApplyIf throws before it returns onEnd,
\* so processTxes' finally block runs without the onEnd of this TxApplyIf.
EvalThrow(p) ==
  /\ mq = <<>>
  /\ spc[p] = "eval"
  /\ Finally(p, onEnds[p], "thrown")
  /\ window' = (window \ SeqRange(onEnds[p])) \ {<<p, idx[p]>>}
  /\ Return(p)
  /\ ScopeFrame

\* The rest of processTxes (ledger, log, routing, derivation, indexing) is
\* done; the call returns through finally.
ApplyReturn(p) ==
  /\ mq = <<>>
  /\ spc[p] = "apply"
  /\ Finally(p, onEnds[p], "done")
  /\ window' = window \ SeqRange(onEnds[p])
  /\ Return(p)
  /\ ScopeFrame

\* The rest of processTxes throws; finally runs all the same.
ApplyThrow(p) ==
  /\ mq = <<>>
  /\ spc[p] = "apply"
  /\ Finally(p, onEnds[p], "thrown")
  /\ window' = window \ SeqRange(onEnds[p])
  /\ Return(p)
  /\ ScopeFrame

(***************************************************************************)
(* Model ledger and hash chain.                                            *)
(***************************************************************************)
ModelTxs == 1..MaxModelTx
NoCall == "none"
Undefined == "undefined"

\* JSON.stringify(tx): a string that holds the content of the transaction.
JSONstringify(tx) == <<[json |-> tx]>>

\* crypto.createHash('sha1'), h.update(data), h.digest('hex'). A string is a
\* sequence of tokens; update appends to the data hashed so far; SHA-1 is
\* taken as collision free, the digest being one token that holds its input.
createHash == <<>>
update(h, data) == h \o data
digest(h) == <<[sha1 |-> h]>>

\* setModel: the chain of a whole model, prev starting as ''.
RECURSIVE setModelFrom(_, _)
setModelFrom(prev, txes) ==
  IF txes = <<>> THEN <<>>
  ELSE LET d == digest(update(update(createHash, prev), JSONstringify(Head(txes))))
       IN <<d>> \o setModelFrom(d, Tail(txes))

setModel(txes) == setModelFrom(<<>>, txes)

\* this.hashes[this.hashes.length - 1]
lastHash(hs) == IF hs = <<>> THEN Undefined ELSE hs[Len(hs)]

\* addModelTx: push the transaction, then hash it onto the last chain entry.
\* h.update(undefined) throws a TypeError, after the push to this.model.
addModelTx(m, hs, tx) ==
  [model |-> Append(m, tx),
   hashes |-> IF lastHash(hs) = Undefined THEN hs
              ELSE Append(hs, digest(update(update(createHash, lastHash(hs)), JSONstringify(tx)))),
   err |-> lastHash(hs) = Undefined]

AddModelTx(tx) ==
  /\ Len(model) < MaxModel
  /\ model' = addModelTx(model, hashes, tx).model
  /\ hashes' = addModelTx(model, hashes, tx).hashes
  /\ modelErr' = (modelErr \/ addModelTx(model, hashes, tx).err)
  /\ loadArg' = NoCall
  /\ loadResp' = NoCall
  /\ ModelFrame

\* Array.prototype.indexOf, positions counted from 1, 0 when absent.
indexOf(s, x) ==
  IF \E i \in 1..Len(s) : s[i] = x
  THEN CHOOSE i \in 1..Len(s) : s[i] = x /\ \A j \in 1..(i - 1) : s[j] # x
  ELSE 0

\* Array.prototype.slice(from): the elements after the first `from`.
slice(s, from) == SubSeq(s, from + 1, Len(s))

loadModelNoSkip(hash) ==
  LET pos == indexOf(hashes, hash)
  IN IF pos >= 1
     THEN [full |-> FALSE, hash |-> lastHash(hashes), transactions |-> slice(model, pos - 1)]
     ELSE [full |-> TRUE, hash |-> lastHash(hashes), transactions |-> model]

\* loadModel with a hash (pos counted from 1, so slice(pos) is the code's
\* slice(pos + 1)).
loadModel(hash) ==
  LET pos == indexOf(hashes, hash)
  IN IF pos >= 1
     THEN [full |-> FALSE, hash |-> lastHash(hashes), transactions |-> slice(model, pos)]
     ELSE [full |-> TRUE, hash |-> lastHash(hashes), transactions |-> model]

LoadModel(hash) ==
  /\ loadArg' = hash
  /\ loadResp' = loadModel(hash)
  /\ UNCHANGED <<model, hashes, modelErr>>
  /\ ModelFrame

\* Hashes a client may present: the entries of the chain of any model.
KnownHashes ==
  UNION {SeqRange(setModel(m)) : m \in SeqsUpTo(ModelTxs, MaxModel)}

(***************************************************************************)
(* Documents, classes and transactions.                                    *)
(***************************************************************************)
Ids == 1..MaxDocs
NoId == 0

\* The hierarchy the model runs on: Root is a plain document class, Child an
\* AttachedDoc class, both in one domain; Cfg is a class of the model domain.
\* Root declares the collections c1 and c2, Child the collection c1, each a
\* Collection of Child. Root declares a related-document collector.
DOMAIN_MODEL == "model"
DOMAIN_TRANSIENT == "transient"
DOMAIN_TX == "tx"
DomainTask == "task"
SpaceModel == "core.space.Model"
SpaceTx == "core.space.Tx"
SpaceDerivedTx == "core.space.DerivedTx"
Spaces == {"sp1", "sp2", "sp3"}

getDomain(cls) ==
  IF cls = "Cfg" THEN DOMAIN_MODEL
  ELSE IF cls = "Temp" THEN DOMAIN_TRANSIENT
  ELSE DomainTask

\* getAllAttributes(cls) restricted to the Collection-typed attributes, in
\* declaration order; collection.of is Child for each of them.
CollectionAttrs(cls) ==
  IF cls = "Root" THEN <<"c1", "c2">>
  ELSE IF cls = "Child" THEN <<"c1">>
  ELSE <<>>

CollectionOf == "Child"

findAttribute(cls, name) == \E i \in 1..Len(CollectionAttrs(cls)) : CollectionAttrs(cls)[i] = name

isAttachedDoc(cls) == cls = "Child"

\* No modelled class is a mixin: getBaseClass is the class itself and
\* getMixins finds nothing.
getBaseClass(cls) == cls

hasDDParticipant(cls) == cls = "Root"

isDerivedTxCUD(txcls) ==
  txcls \in {"TxCreateDoc", "TxUpdateDoc", "TxRemoveDoc", "TxMixin", "TxCollectionCUD"}

\* A stored document; NoDoc stands for an id that is not stored.
NoCnt == [c1 |-> 0, c2 |-> 0]
NoDoc == [cls |-> "none", space |-> "", attachedTo |-> NoId, attachedToClass |-> "",
          collection |-> "", cnt |-> NoCnt]

NewDoc(cls, space) ==
  [cls |-> cls, space |-> space, attachedTo |-> NoId, attachedToClass |-> "",
   collection |-> "", cnt |-> NoCnt]

Live(d, id) == d[id].cls # "none"

\* DocumentUpdate: the fields an update sets ("" / NoId when not given) and
\* its $inc (<<>> or <<attribute, delta>>).
NoOps == [attachedTo |-> NoId, attachedToClass |-> "", collection |-> "",
          space |-> "", inc |-> <<>>]

BaseTx(cls, objectId, objectClass, objectSpace, space, modifiedOn) ==
  [cls |-> cls, objectId |-> objectId, objectClass |-> objectClass,
   objectSpace |-> objectSpace, space |-> space, modifiedOn |-> modifiedOn,
   collection |-> "", attrs |-> NoDoc, ops |-> NoOps, tx |-> <<>>,
   scope |-> "", match |-> <<>>, notMatch |-> <<>>, txes |-> <<>>]

\* TxFactory: the space of the transaction is DerivedTx for a derived one.
TxSpace(isDerived) == IF isDerived THEN SpaceDerivedTx ELSE SpaceTx

createTxCreateDoc(id, doc, on, isDerived) ==
  [BaseTx("TxCreateDoc", id, doc.cls, doc.space, TxSpace(isDerived), on) EXCEPT !.attrs = doc]

createTxRemoveDoc(cls, space, id, on, isDerived) ==
  BaseTx("TxRemoveDoc", id, cls, space, TxSpace(isDerived), on)

createTxUpdateDoc(cls, space, id, ops, on, isDerived) ==
  [BaseTx("TxUpdateDoc", id, cls, space, TxSpace(isDerived), on) EXCEPT !.ops = ops]

createTxMixin(id, cls, space, mixin, ops, on, isDerived) ==
  [BaseTx("TxMixin", id, cls, space, TxSpace(isDerived), on) EXCEPT !.ops = ops]

createTxCollectionCUD(cls, id, space, collection, nested, on, isDerived) ==
  [BaseTx("TxCollectionCUD", id, cls, space, TxSpace(isDerived), on)
     EXCEPT !.collection = collection, !.tx = <<nested>>]

createTxApplyIf(scope, match, notMatch, txes, on) ==
  [BaseTx("TxApplyIf", NoId, "", SpaceTx, SpaceTx, on)
     EXCEPT !.scope = scope, !.match = match, !.notMatch = notMatch, !.txes = txes]

\* TxProcessor.extractTx: the transaction wrapped by a TxCollectionCUD; a
\* wrapped create takes attachedTo, attachedToClass and collection from the
\* wrapper.
extractTx(tx) ==
  IF tx.cls = "TxCollectionCUD"
  THEN LET n == tx.tx[1]
       IN IF n.cls = "TxCreateDoc"
          THEN [n EXCEPT !.attrs = [n.attrs EXCEPT !.attachedTo = tx.objectId,
                                                   !.attachedToClass = tx.objectClass,
                                                   !.collection = tx.collection]]
          ELSE n
  ELSE tx

(***************************************************************************)
(* The domain adapter: findAll, load and tx on the stored documents.       *)
(***************************************************************************)
applyOps(doc, ops) ==
  LET a == IF ops.attachedTo # NoId THEN [doc EXCEPT !.attachedTo = ops.attachedTo] ELSE doc
      b == IF ops.attachedToClass # "" THEN [a EXCEPT !.attachedToClass = ops.attachedToClass] ELSE a
      c == IF ops.collection # "" THEN [b EXCEPT !.collection = ops.collection] ELSE b
      e == IF ops.space # "" THEN [c EXCEPT !.space = ops.space] ELSE c
  IN IF ops.inc # <<>>
     THEN [e EXCEPT !.cnt[ops.inc[1]] = @ + ops.inc[2]]
     ELSE e

\* One transaction applied by the adapter of its domain.
adapterApply(d, t) ==
  IF t.cls = "TxCreateDoc" THEN [d EXCEPT ![t.objectId] = t.attrs]
  ELSE IF t.cls = "TxRemoveDoc" THEN [d EXCEPT ![t.objectId] = NoDoc]
  ELSE IF t.cls \in {"TxUpdateDoc", "TxMixin"} /\ Live(d, t.objectId)
       THEN [d EXCEPT ![t.objectId] = applyOps(@, t.ops)]
  ELSE d

\* The one element of a singleton set. In {e : x \in {v}} the value v is
\* computed once and named x.
Only(S) == CHOOSE x \in S : TRUE

RECURSIVE adapterTx(_, _)
adapterTx(stored, txes) ==
  Only({IF part = <<>> THEN d ELSE adapterTx(adapterApply(d, Head(part)), Tail(part))
          : d \in {stored}, part \in {txes}})

\* adapter.load(domain, ids): the stored documents of the domain among ids.
adapterLoad(d, domain, ids) ==
  {id \in ids : Live(d, id) /\ getDomain(d[id].cls) = domain}

\* A set of ids as a sequence in ascending order (the order of a result).
RECURSIVE SetToSeq(_)
SetToSeq(ids) ==
  Only({IF S = {} THEN <<>>
        ELSE Only({<<m>> \o SetToSeq(S \ {m}) : m \in {CHOOSE x \in S : \A y \in S : x <= y}})
          : S \in {ids}})

isDerivedClass(cls, of) == cls = of

\* findAll(_class, { _id }, { limit: 1 })[0]: the id, or NoId for undefined.
findById(d, cls, id) ==
  IF id \in Ids /\ Live(d, id) /\ isDerivedClass(d[id].cls, cls) THEN id ELSE NoId

\* findAll(_class, {}): the query without the attachedTo criterion.
findAttachedAny(d, cls, parent) ==
  SetToSeq({id \in Ids : Live(d, id) /\ isDerivedClass(d[id].cls, cls)})

\* findAll(_class, { attachedTo })
findAttached(d, cls, parent) ==
  SetToSeq({id \in Ids : Live(d, id) /\ isDerivedClass(d[id].cls, cls) /\ d[id].attachedTo = parent})

\* findAll(_class, { attachedTo, space })
findAttachedInSpace(d, cls, parent, space) ==
  SetToSeq({id \in Ids : /\ Live(d, id)
                         /\ isDerivedClass(d[id].cls, cls)
                         /\ d[id].attachedTo = parent
                         /\ d[id].space = space})

(***************************************************************************)
(* routeTx.                                                                *)
(***************************************************************************)
\* The TxResult the adapter returns for a transaction; `for` names the
\* transaction it belongs to.
TxResult(t) == [kind |-> "tx", success |-> TRUE, for |-> t]

NoRemoved == [id \in Ids |-> NoDoc]

\* What routeTx asks of its collaborators, in the order it asks: "load"
\* (adapter.load of ids in a domain), "tx" (adapter.tx of a run), "notify"
\* (liveQuery.tx of one transaction) and "error" (ctx.error for a skipped
\* transaction).
Event(ev, domain, txes, ids) == [ev |-> ev, domain |-> domain, txes |-> txes, ids |-> ids]

\* part.filter((it) => it._class === core.class.TxRemoveDoc).map((it) => it.objectId)
toDelete(part) ==
  {part[i].objectId : i \in {j \in 1..Len(part) : part[j].cls = "TxRemoveDoc"}}

\* The state of a routeTx call: the stored documents, removedDocs, result,
\* the adapter.tx calls made, the events, the number of the adapter.tx call
\* that rejects (0 for none) and whether the call has thrown.
RouteState(d, removedDocs, rejects) ==
  [docs |-> d, removed |-> removedDocs, result |-> <<>>, calls |-> <<>>,
   events |-> <<>>, rejects |-> rejects, thrown |-> FALSE]

\* processPart with the live queries notified before the adapter is called.
processPartNotifyFirst(state, txes, lastDomain) ==
  Only({IF part = <<>> \/ st.thrown THEN st
        ELSE Only({IF st.rejects = Len(st.calls) + 1
                   THEN [st EXCEPT !.calls = Append(@, [domain |-> lastDomain, txes |-> part]),
                                   !.events = @ \o notified \o <<Event("tx", lastDomain, part, {})>>,
                                   !.thrown = TRUE]
                   ELSE [st EXCEPT !.docs = adapterTx(@, part),
                                   !.result = @ \o [i \in 1..Len(part) |-> TxResult(part[i])],
                                   !.calls = Append(@, [domain |-> lastDomain, txes |-> part]),
                                   !.events = @ \o notified \o <<Event("tx", lastDomain, part, {})>>]
                     : notified \in {[i \in 1..Len(part) |-> Event("notify", lastDomain, <<part[i]>>, {})]}})
          : st \in {state}, part \in {txes}})

\* processPart: load the documents the run removes into removedDocs, hand
\* the run to the adapter of its domain, notify the live queries, collect the
\* results. A rejecting adapter.tx leaves the rest undone.
processPart(state, txes, lastDomain) ==
  Only({IF part = <<>> \/ st.thrown THEN st
        ELSE Only({Only({IF st.rejects = Len(st.calls) + 1
                         THEN [st EXCEPT !.removed = removed,
                                         !.calls = Append(@, [domain |-> lastDomain, txes |-> part]),
                                         !.events = @ \o called,
                                         !.thrown = TRUE]
                         ELSE [st EXCEPT !.docs = adapterTx(@, part),
                                         !.removed = removed,
                                         !.result = @ \o [i \in 1..Len(part) |-> TxResult(part[i])],
                                         !.calls = Append(@, [domain |-> lastDomain, txes |-> part]),
                                         !.events = @ \o called
                                            \o [i \in 1..Len(part) |->
                                                  Event("notify", lastDomain, <<part[i]>>, {})]]
                          : removed \in {[id \in Ids |-> IF id \in adapterLoad(st.docs, lastDomain, ids)
                                                        THEN st.docs[id] ELSE st.removed[id]]},
                            called \in {(IF ids # {} THEN <<Event("load", lastDomain, <<>>, ids)>>
                                         ELSE <<>>)
                                          \o <<Event("tx", lastDomain, part, {})>>}})
                     : ids \in {toDelete(part)}})
          : st \in {state}, part \in {txes}})

RECURSIVE routeLoop(_, _, _, _)

\* routeTx's loop without the run boundary.
routeLoopOneRun(state, run, lastDomain, rest) ==
  Only({IF txes = <<>> THEN processPart(st, part, lastDomain)
        ELSE IF st.thrown THEN st
        ELSE Only({IF ~isDerivedTxCUD(txCUD.cls)
                   THEN routeLoop([st EXCEPT !.events = Append(@, Event("error", "", <<Head(txes)>>, {}))],
                                  part, lastDomain, Tail(txes))
                   ELSE routeLoop(st, Append(part, txCUD), getDomain(txCUD.objectClass), Tail(txes))
                     : txCUD \in {extractTx(Head(txes))}})
          : st \in {state}, part \in {run}, txes \in {rest}})

\* routeTx's loop without the check of the transaction's class.
routeLoopNoSkip(state, run, lastDomain, rest) ==
  Only({IF txes = <<>> THEN processPart(st, part, lastDomain)
        ELSE IF st.thrown THEN st
        ELSE Only({IF part # <<>> /\ lastDomain # getDomain(txCUD.objectClass)
                   THEN routeLoop(processPart(st, part, lastDomain), <<txCUD>>,
                                  getDomain(txCUD.objectClass), Tail(txes))
                   ELSE routeLoop(st, Append(part, txCUD), getDomain(txCUD.objectClass), Tail(txes))
                     : txCUD \in {extractTx(Head(txes))}})
          : st \in {state}, part \in {run}, txes \in {rest}})

routeLoop(state, run, lastDomain, rest) ==
  Only({IF txes = <<>> THEN processPart(st, part, lastDomain)
        ELSE IF st.thrown THEN st
        ELSE Only({IF ~isDerivedTxCUD(txCUD.cls)
                   THEN routeLoop([st EXCEPT !.events = Append(@, Event("error", "", <<Head(txes)>>, {}))],
                                  part, lastDomain, Tail(txes))
                   ELSE IF part # <<>> /\ lastDomain # getDomain(txCUD.objectClass)
                   THEN routeLoop(processPart(st, part, lastDomain), <<txCUD>>,
                                  getDomain(txCUD.objectClass), Tail(txes))
                   ELSE routeLoop(st, Append(part, txCUD), getDomain(txCUD.objectClass), Tail(txes))
                     : txCUD \in {extractTx(Head(txes))}})
          : st \in {state}, part \in {run}, txes \in {rest}})

\* routeTx when every adapter call returns.
routeTx(d, removedDocs, txes) ==
  routeLoop(RouteState(d, removedDocs, 0), <<>>, "", txes)

(***************************************************************************)
(* The derivation engine.                                                  *)
(***************************************************************************)
ClientTime == 1   \* modifiedOn of the transactions of a client batch
Now == 2          \* Date.now() when the server creates a transaction

\* deleteObject: the remove transaction of a document, wrapped in a
\* TxCollectionCUD when the document is an AttachedDoc.
deleteObject(d, id) ==
  LET o == d[id]
  IN IF isAttachedDoc(o.cls)
     THEN createTxCollectionCUD(o.attachedToClass, o.attachedTo, o.space, o.collection,
                                createTxRemoveDoc(o.cls, o.space, id, Now, TRUE), Now, TRUE)
     ELSE createTxRemoveDoc(o.cls, o.space, id, Now, TRUE)

RECURSIVE Flatten(_)
Flatten(lists) ==
  Only({IF ss = <<>> THEN <<>> ELSE Head(ss) \o Flatten(Tail(ss)) : ss \in {lists}})

\* deleteClassCollections: for every Collection attribute of the class, the
\* documents of collection.of attached to the object (the ids to delete).
deleteClassCollections(d, cls, objectId) ==
  Flatten([i \in 1..Len(CollectionAttrs(cls)) |-> findAttached(d, CollectionOf, objectId)])

\* The related-document collector the class Root declares: the stored
\* document whose id follows the id of the object.
collectDocs(d, objectId) ==
  LET n == (objectId % MaxDocs) + 1
  IN IF n # objectId /\ Live(d, n) THEN <<n>> ELSE <<>>

deleteRelatedDocuments(d, object, objectId) ==
  IF hasDDParticipant(object.cls) THEN collectDocs(d, objectId) ELSE <<>>

\* getMixins: the mixins of the object's domain applied to the object.
getMixins(cls, object) == <<>>

\* The ids processRemove schedules for one removed object.
removeTargets(d, object, objectId) ==
  deleteClassCollections(d, object.cls, objectId)
    \o Flatten([i \in 1..Len(getMixins(object.cls, object)) |->
                  deleteClassCollections(d, getMixins(object.cls, object)[i], objectId)])
    \o deleteRelatedDocuments(d, object, objectId)

RECURSIVE setRemoved(_, _, _)
setRemoved(map, d, targets) ==
  Only({IF ids = <<>> THEN removedMap
        ELSE setRemoved([removedMap EXCEPT ![Head(ids)] = d[Head(ids)]], d, Tail(ids))
          : removedMap \in {map}, ids \in {targets}})

\* processRemove: the cascade of every TxRemoveDoc whose object is in
\* removedMap. acc is [txs, removed].
RECURSIVE processRemoveLoop(_, _, _)
processRemoveLoop(d, rest, soFar) ==
  Only({IF txes = <<>> THEN acc
        ELSE Only({IF rtx.cls # "TxRemoveDoc" \/ acc.removed[rtx.objectId] = NoDoc
                   THEN processRemoveLoop(d, Tail(txes), acc)
                   ELSE Only({processRemoveLoop(d, Tail(txes),
                                [txs |-> acc.txs \o [i \in 1..Len(ids) |-> deleteObject(d, ids[i])],
                                 removed |-> setRemoved(acc.removed, d, ids)])
                                : ids \in {removeTargets(d, acc.removed[rtx.objectId], rtx.objectId)}})
                     : rtx \in {extractTx(Head(txes))}})
          : txes \in {rest}, acc \in {soFar}})

processRemove(d, txes, removedMap) ==
  processRemoveLoop(d, txes, [txs |-> <<>>, removed |-> removedMap])

Inc(attr, delta) == [NoOps EXCEPT !.inc = <<attr, delta>>]

\* getCollectionUpdateTx: a TxMixin when the class is not its own base class,
\* a TxUpdateDoc otherwise; modifiedOn is the one handed in.
getCollectionUpdateTx(id, cls, modifiedOn, attachedTo, upd) ==
  IF getBaseClass(cls) # cls
  THEN createTxMixin(id, attachedTo.cls, attachedTo.space, cls, upd, modifiedOn, TRUE)
  ELSE createTxUpdateDoc(cls, attachedTo.space, id, upd, modifiedOn, TRUE)

\* updateCollection without the lookup of the old parent: the decrement is
\* emitted whether or not the document is stored.
updateCollectionNoLookup(d, tx) ==
  IF tx.cls # "TxCollectionCUD" THEN <<>>
  ELSE LET id == tx.objectId
           cls == tx.objectClass
           operations == tx.tx[1].ops
       IN IF tx.tx[1].cls # "TxUpdateDoc" \/ getDomain(cls) = DOMAIN_MODEL THEN <<>>
          ELSE IF operations.attachedTo = NoId \/ operations.attachedTo = id THEN <<>>
          ELSE LET oldTx == <<getCollectionUpdateTx(id, cls, tx.modifiedOn, d[id],
                                                     Inc(tx.collection, -1))>>
                   newAttachedToClass == IF operations.attachedToClass # ""
                                         THEN operations.attachedToClass ELSE cls
                   newAttachedToCollection == IF operations.collection # ""
                                              THEN operations.collection ELSE tx.collection
                   newAttachedTo == findById(d, newAttachedToClass, operations.attachedTo)
                   newTx == IF newAttachedTo # NoId
                               /\ findAttribute(newAttachedToClass, newAttachedToCollection)
                            THEN <<getCollectionUpdateTx(newAttachedTo, d[newAttachedTo].cls,
                                                         tx.modifiedOn, d[newAttachedTo],
                                                         Inc(newAttachedToCollection, 1))>>
                            ELSE <<>>
               IN oldTx \o newTx

\* updateCollection: the counter updates of a re-parenting update.
updateCollection(d, tx) ==
  IF tx.cls # "TxCollectionCUD" THEN <<>>
  ELSE LET id == tx.objectId
           cls == tx.objectClass
           operations == tx.tx[1].ops
       IN IF tx.tx[1].cls # "TxUpdateDoc" \/ getDomain(cls) = DOMAIN_MODEL THEN <<>>
          ELSE IF operations.attachedTo = NoId \/ operations.attachedTo = id THEN <<>>
          ELSE LET oldAttachedTo == findById(d, cls, id)
                   oldTx == IF oldAttachedTo # NoId /\ findAttribute(d[oldAttachedTo].cls, tx.collection)
                            THEN <<getCollectionUpdateTx(id, cls, tx.modifiedOn, d[oldAttachedTo],
                                                         Inc(tx.collection, -1))>>
                            ELSE <<>>
                   newAttachedToClass == IF operations.attachedToClass # ""
                                         THEN operations.attachedToClass ELSE cls
                   newAttachedToCollection == IF operations.collection # ""
                                              THEN operations.collection ELSE tx.collection
                   newAttachedTo == findById(d, newAttachedToClass, operations.attachedTo)
                   newTx == IF newAttachedTo # NoId
                               /\ findAttribute(newAttachedToClass, newAttachedToCollection)
                            THEN <<getCollectionUpdateTx(newAttachedTo, d[newAttachedTo].cls,
                                                         tx.modifiedOn, d[newAttachedTo],
                                                         Inc(newAttachedToCollection, 1))>>
                            ELSE <<>>
               IN oldTx \o newTx

\* The counter update of a wrapped create or remove.
collectionCountTx(d, tx, removedMap) ==
  LET id == tx.objectId
      cls == tx.objectClass
      isCreateTx == tx.tx[1].cls = "TxCreateDoc"
      isDeleteTx == tx.tx[1].cls = "TxRemoveDoc"
  IN IF (isCreateTx \/ isDeleteTx) /\ removedMap[id] = NoDoc /\ findById(d, cls, id) # NoId
     THEN <<getCollectionUpdateTx(id, cls, tx.modifiedOn, d[id],
                                  Inc(tx.collection, IF isCreateTx THEN 1 ELSE -1))>>
     ELSE <<>>

\* processCollection over one transaction.
processCollectionTx(d, tx, removedMap) ==
  IF tx.cls # "TxCollectionCUD" \/ getDomain(tx.objectClass) = DOMAIN_MODEL THEN <<>>
  ELSE (IF tx.tx[1].cls = "TxUpdateDoc" THEN updateCollection(d, tx) ELSE <<>>)
         \o collectionCountTx(d, tx, removedMap)

processCollection(d, txes, removedMap) ==
  Flatten([i \in 1..Len(txes) |-> processCollectionTx(d, txes[i], removedMap)])

\* processMove over one transaction with a query that leaves the space out.
processMoveTxAnySpace(d, tx) ==
  LET rtx == extractTx(tx)
  IN IF rtx.cls # "TxUpdateDoc" THEN <<>>
     ELSE IF rtx.ops.space = "" \/ rtx.ops.space = rtx.objectSpace THEN <<>>
     ELSE Flatten([i \in 1..Len(CollectionAttrs(rtx.objectClass)) |->
            LET allAttached == findAttached(d, CollectionOf, rtx.objectId)
            IN [k \in 1..Len(allAttached) |->
                 createTxUpdateDoc(d[allAttached[k]].cls, d[allAttached[k]].space, allAttached[k],
                                   [NoOps EXCEPT !.space = rtx.ops.space], Now, TRUE)]])

\* processMove over one transaction: an update that changes the space moves
\* the attached documents that are still in the old space.
processMoveTx(d, tx) ==
  LET rtx == extractTx(tx)
  IN IF rtx.cls # "TxUpdateDoc" THEN <<>>
     ELSE IF rtx.ops.space = "" \/ rtx.ops.space = rtx.objectSpace THEN <<>>
     ELSE Flatten([i \in 1..Len(CollectionAttrs(rtx.objectClass)) |->
            LET allAttached == findAttachedInSpace(d, CollectionOf, rtx.objectId, rtx.objectSpace)
            IN [k \in 1..Len(allAttached) |->
                 createTxUpdateDoc(d[allAttached[k]].cls, d[allAttached[k]].space, allAttached[k],
                                   [NoOps EXCEPT !.space = rtx.ops.space], Now, TRUE)]])

processMove(d, txes) == Flatten([i \in 1..Len(txes) |-> processMoveTx(d, txes[i])])

\* No trigger is registered: triggers.apply returns nothing and queues no
\* effect.
triggersApply(txes) == <<>>

\* derived.sort((a, b) => a.modifiedOn - b.modifiedOn): a stable sort.
RECURSIVE insertSorted(_, _)
insertSorted(list, t) ==
  Only({IF sorted = <<>> THEN <<t>>
        ELSE IF sorted[Len(sorted)].modifiedOn <= t.modifiedOn THEN Append(sorted, t)
        ELSE Append(insertSorted(SubSeq(sorted, 1, Len(sorted) - 1), t), sorted[Len(sorted)])
          : sorted \in {list}})

RECURSIVE sortFrom(_, _)
sortFrom(list, rest) ==
  Only({IF txes = <<>> THEN sorted ELSE sortFrom(insertSorted(sorted, Head(txes)), Tail(txes))
          : sorted \in {list}, txes \in {rest}})

sortByModifiedOn(txes) == sortFrom(<<>>, txes)

\* The transactions one pass derives from txes, before they are sorted.
derive(d, txes, removedMap) ==
  Only({[txs |-> removed.txs \o processCollection(d, txes, removed.removed)
                   \o processMove(d, txes) \o triggersApply(txes),
         removed |-> removed.removed]
          : removed \in {processRemove(d, txes, removedMap)}})

\* processDerived and processDerivedTxes call each other until a pass derives
\* nothing. The result is [docs, derived, passes, diverged]; the recursion is
\* followed for MaxPasses passes, diverged tells that it went further.
RECURSIVE processDerived(_, _, _, _)
RECURSIVE processDerivedTxes(_, _, _, _)

\* The tail of processDerivedTxes, the derived transactions sorted and
\* routed (st): if (derived.length > 0) the next pass, then res.
nestedTxes(sorted, st, pass) ==
  IF sorted = <<>>
  THEN [docs |-> st.docs, derived |-> <<>>, passes |-> pass, diverged |-> FALSE]
  ELSE IF pass >= MaxPasses
  THEN [docs |-> st.docs, derived |-> sorted, passes |-> pass, diverged |-> TRUE]
  ELSE Only({[nested EXCEPT !.derived = sorted \o nested.derived]
               : nested \in {processDerived(st.docs, sorted, st.removed, pass + 1)}})

processDerivedTxesNoGuard(stored, derived, removedMap, pass) ==
  Only({Only({IF pass >= MaxPasses
              THEN [docs |-> st.docs, derived |-> sorted, passes |-> pass, diverged |-> TRUE]
              ELSE Only({[nested EXCEPT !.derived = sorted \o nested.derived]
                           : nested \in {processDerived(st.docs, sorted, st.removed, pass + 1)}})
                : st \in {routeTx(d, removedMap, sorted)}})
          : d \in {stored}, sorted \in {sortByModifiedOn(derived)}})

processDerivedTxes(stored, derived, removedMap, pass) ==
  Only({Only({nestedTxes(sorted, st, pass) : st \in {routeTx(d, removedMap, sorted)}})
          : d \in {stored}, sorted \in {sortByModifiedOn(derived)}})

processDerived(stored, processed, removedMap, pass) ==
  Only({Only({processDerivedTxes(d, dv.txs, dv.removed, pass)
                : dv \in {derive(d, txes, removedMap)}})
          : d \in {stored}, txes \in {processed}})

(***************************************************************************)
(* processTxes.                                                            *)
(***************************************************************************)
EmptyAcc == [store |-> <<>>, model |-> <<>>, process |-> <<>>, apply |-> <<>>]

\* fillTxes that pushes every transaction that is not a TxApplyIf to
\* txToStore.
RECURSIVE fillTxesStoreAll(_, _)
fillTxesStoreAll(list, lists) ==
  Only({IF txes = <<>> THEN acc
        ELSE Only({fillTxesStoreAll(Tail(txes),
                     IF tx.cls # "TxApplyIf"
                     THEN [acc EXCEPT
                             !.store = Append(@, tx),
                             !.model = IF tx.objectSpace = SpaceModel THEN Append(@, tx) ELSE @,
                             !.process = Append(@, tx)]
                     ELSE [acc EXCEPT !.apply = Append(@, tx)])
                     : tx \in {Head(txes)}})
          : txes \in {list}, acc \in {lists}})

\* fillTxes: sort the transactions into txToStore, modelTx, txToProcess and
\* applyTxes. Every modelled transaction is a TxCUD or a TxApplyIf.
RECURSIVE fillTxes(_, _)
fillTxes(list, lists) ==
  Only({IF txes = <<>> THEN acc
        ELSE Only({fillTxes(Tail(txes),
                     IF tx.cls # "TxApplyIf"
                     THEN [acc EXCEPT
                             !.store = IF tx.space # SpaceDerivedTx
                                          /\ getDomain(tx.objectClass) # DOMAIN_TRANSIENT
                                       THEN Append(@, tx) ELSE @,
                             !.model = IF tx.objectSpace = SpaceModel THEN Append(@, tx) ELSE @,
                             !.process = Append(@, tx)]
                     ELSE [acc EXCEPT !.apply = Append(@, tx)])
                     : tx \in {Head(txes)}})
          : txes \in {list}, acc \in {lists}})

\* The for loops of verifyApplyIf over match and notMatch. A query is
\* [cls, id]: findAll(cls, { _id: id }, { limit: 1 }). st is [passed,
\* queries]: the verdict so far and the queries issued.
RECURSIVE matchLoop(_, _, _)
matchLoop(d, list, state) ==
  Only({IF match = <<>> THEN st
        ELSE IF findById(d, Head(match).cls, Head(match).id) = NoId
        THEN [passed |-> FALSE, queries |-> Append(st.queries, Head(match))]
        ELSE matchLoop(d, Tail(match), [st EXCEPT !.queries = Append(@, Head(match))])
          : match \in {list}, st \in {state}})

RECURSIVE notMatchLoop(_, _, _)
notMatchLoop(d, list, state) ==
  Only({IF notMatch = <<>> THEN st
        ELSE IF findById(d, Head(notMatch).cls, Head(notMatch).id) # NoId
        THEN [passed |-> FALSE, queries |-> Append(st.queries, Head(notMatch))]
        ELSE notMatchLoop(d, Tail(notMatch), [st EXCEPT !.queries = Append(@, Head(notMatch))])
          : notMatch \in {list}, st \in {state}})

\* verifyApplyIf with loops that go on after a failing predicate.
verifyApplyIfAllQueries(d, applyIf) ==
  Only({notMatchLoop(d, applyIf.notMatch, [m EXCEPT !.queries = applyIf.match])
          : m \in {matchLoop(d, applyIf.match, [passed |-> TRUE, queries |-> <<>>])}})

\* verifyApplyIf once it holds the scope: { passed }, with the queries it
\* issued on the way.
verifyApplyIf(d, applyIf) ==
  Only({IF m.passed THEN notMatchLoop(d, applyIf.notMatch, m) ELSE m
          : m \in {matchLoop(d, applyIf.match, [passed |-> TRUE, queries |-> <<>>])}})

ApplyResult(success, t) == [kind |-> "applyIf", success |-> success, for |-> t]

\* for (const tx of applyTxes): the list grows while it is iterated.
\* st is [acc, result, derived].
RECURSIVE applyLoop(_, _, _)

\* The loop with the embedded transactions of a failed TxApplyIf filled in.
applyLoopFillFailed(d, state, k) ==
  Only({IF k > Len(st.acc.apply) THEN st
        ELSE Only({IF verifyApplyIf(d, applyIf).passed
                   THEN applyLoop(d, [acc |-> fillTxes(applyIf.txes, st.acc),
                                      result |-> Append(st.result, ApplyResult(TRUE, applyIf)),
                                      derived |-> applyIf.txes], k + 1)
                   ELSE applyLoop(d, [acc |-> fillTxes(applyIf.txes, st.acc),
                                      result |-> Append(st.result, ApplyResult(FALSE, applyIf)),
                                      derived |-> st.derived], k + 1)
                     : applyIf \in {st.acc.apply[k]}})
          : st \in {state}})

applyLoop(d, state, k) ==
  Only({IF k > Len(st.acc.apply) THEN st
        ELSE Only({IF verifyApplyIf(d, applyIf).passed
                   THEN applyLoop(d, [acc |-> fillTxes(applyIf.txes, st.acc),
                                      result |-> Append(st.result, ApplyResult(TRUE, applyIf)),
                                      derived |-> applyIf.txes], k + 1)
                   ELSE applyLoop(d, [st EXCEPT !.result = Append(@, ApplyResult(FALSE, applyIf))],
                                  k + 1)
                     : applyIf \in {st.acc.apply[k]}})
          : st \in {state}})

\* for (const tx of modelTx) this.addModelTx(tx), up to the first throw.
RECURSIVE modelLoop(_, _)
modelLoop(state, rest) ==
  Only({IF txes = <<>> \/ st.err THEN st
        ELSE modelLoop(addModelTx(st.model, st.hashes, Head(txes)), Tail(txes))
          : st \in {state}, txes \in {rest}})

\* The steps of processTxes at which an adapter call may reject.
FailSteps == {"none", "log", "route", "derive", "fulltext"}

\* What the steps of processTxes compute on the stored documents d, the
\* model m and the chain hs when every adapter call returns.
processSteps(d, m, hs, txes) ==
  Only({Only({Only({[ap |-> ap,
                     ml |-> modelLoop([model |-> m, hashes |-> hs, err |-> FALSE], ap.acc.model),
                     routed |-> routed,
                     dv |-> dv,
                     pd |-> processDerivedTxes(routed.docs, dv.txs, dv.removed, 1)]
                      : dv \in {derive(routed.docs, ap.acc.process, routed.removed)}})
                : routed \in {routeTx(d, NoRemoved, ap.acc.process)}})
          : ap \in {applyLoop(d, [acc |-> fillTxes(txes, EmptyAcc), result |-> <<>>,
                                  derived |-> <<>>], 1)}})

\* The end of processTxes: failAt names the step whose adapter call rejects,
\* "none" when all return. What the steps before the throw wrote stays.
processEnd(d, steps, failAt) ==
  Only({Only({IF st.ml.err THEN thrown
              ELSE IF failAt = "log" THEN [thrown EXCEPT !.at = "log"]
              ELSE IF failAt = "route" /\ st.routed.calls # <<>>
              THEN [thrown EXCEPT !.at = "route", !.txLogged = st.ap.acc.store]
              ELSE IF failAt = "derive" /\ st.dv.txs # <<>>
              THEN [thrown EXCEPT !.at = "derive", !.txLogged = st.ap.acc.store,
                                  !.docs = st.routed.docs]
              ELSE IF failAt = "fulltext"
              THEN [thrown EXCEPT !.at = "fulltext", !.txLogged = st.ap.acc.store,
                                  !.docs = st.pd.docs, !.passes = st.pd.passes,
                                  !.diverged = st.pd.diverged]
              ELSE [outcome |-> "returned", at |-> "none", docs |-> st.pd.docs,
                    model |-> st.ml.model, hashes |-> st.ml.hashes, err |-> FALSE,
                    result |-> st.ap.result \o st.routed.result,
                    derived |-> st.ap.derived \o st.pd.derived,
                    txLogged |-> st.ap.acc.store,
                    ftTx |-> st.ap.acc.process \o st.ap.derived \o st.pd.derived,
                    passes |-> st.pd.passes, diverged |-> st.pd.diverged]
                : thrown \in {[outcome |-> "thrown", at |-> "model", docs |-> d,
                               model |-> st.ml.model, hashes |-> st.ml.hashes, err |-> st.ml.err,
                               result |-> <<>>, derived |-> <<>>, txLogged |-> <<>>,
                               ftTx |-> <<>>, passes |-> 0, diverged |-> FALSE]}})
          : st \in {steps}})

processTxes(d, m, hs, txes, failAt) == processEnd(d, processSteps(d, m, hs, txes), failAt)

\* tx: processTxes on the one transaction, the first result returned.
tx(d, m, hs, t) ==
  Only({[result |-> r.result[1], derived |-> r.derived]
          : r \in {processTxes(d, m, hs, <<t>>, "none")}})

(***************************************************************************)
(* Client batches.                                                         *)
(***************************************************************************)
\* The space a client moves a document of sp to.
OtherSpace(sp) == IF sp = "sp1" THEN "sp2" ELSE IF sp = "sp2" THEN "sp3" ELSE "sp1"

\* A model transaction: an update of a configuration document.
CfgTx == createTxUpdateDoc("Cfg", SpaceModel, 1, NoOps, ClientTime, FALSE)

\* A transaction on an object of a class of the transient domain.
TempTx == createTxUpdateDoc("Temp", "sp1", 1, NoOps, ClientTime, FALSE)

\* generateId: the id a client gives a new document is one never given
\* before, here the one after the last.
FreeIds(last) == {i \in Ids : i = last + 1}

\* The transactions a client may send when the store holds sim.
CreateRootTxs(last) ==
  {createTxCreateDoc(id, NewDoc("Root", "sp1"), ClientTime, FALSE) : id \in FreeIds(last)}

CreateChildTxs(sim, last) ==
  UNION {UNION {{createTxCollectionCUD(sim[parent].cls, parent, sim[parent].space, c,
                   createTxCreateDoc(id, NewDoc("Child", sim[parent].space), ClientTime, FALSE),
                   ClientTime, FALSE)
                  : c \in {CollectionAttrs(sim[parent].cls)[k] : k \in 1..Len(CollectionAttrs(sim[parent].cls))}}
                : id \in FreeIds(last)}
          : parent \in {i \in Ids : Live(sim, i)}}

RemoveTxs(sim) ==
  {IF isAttachedDoc(sim[id].cls)
   THEN createTxCollectionCUD(sim[id].attachedToClass, sim[id].attachedTo, sim[id].space,
                              sim[id].collection,
                              createTxRemoveDoc(sim[id].cls, sim[id].space, id, ClientTime, FALSE),
                              ClientTime, FALSE)
   ELSE createTxRemoveDoc(sim[id].cls, sim[id].space, id, ClientTime, FALSE)
     : id \in {i \in Ids : Live(sim, i)}}

ReparentTxs(sim) ==
  UNION {UNION {{createTxCollectionCUD(sim[id].attachedToClass, sim[id].attachedTo, sim[id].space,
                   sim[id].collection,
                   createTxUpdateDoc(sim[id].cls, sim[id].space, id,
                     [NoOps EXCEPT !.attachedTo = parent, !.attachedToClass = sim[parent].cls,
                                   !.collection = c],
                     ClientTime, FALSE),
                   ClientTime, FALSE)
                  : c \in {CollectionAttrs(sim[parent].cls)[k] : k \in 1..Len(CollectionAttrs(sim[parent].cls))}}
                : parent \in {i \in Ids : Live(sim, i) /\ i # id /\ i # sim[id].attachedTo}}
          : id \in {i \in Ids : Live(sim, i) /\ isAttachedDoc(sim[i].cls)}}

MoveTxs(sim) ==
  {createTxUpdateDoc(sim[id].cls, sim[id].space, id,
                     [NoOps EXCEPT !.space = OtherSpace(sim[id].space)], ClientTime, FALSE)
     : id \in {i \in Ids : Live(sim, i) /\ ~isAttachedDoc(sim[i].cls)}}

PlainTxs(sim, last) ==
  CreateRootTxs(last) \cup CreateChildTxs(sim, last) \cup RemoveTxs(sim)
    \cup ReparentTxs(sim) \cup MoveTxs(sim) \cup {CfgTx}

\* A TxApplyIf that asks for document 1 to exist and embeds at most one
\* transaction.
ApplyIfTxs(sim, last) ==
  {createTxApplyIf("s1", <<[cls |-> "Root", id |-> 1]>>, <<>>, txes, ClientTime)
     : txes \in {<<>>} \cup {<<t>> : t \in PlainTxs(sim, last)}}

\* The store as the client expects it after the transaction.
simulate(sim, t) == adapterApply(sim, extractTx(t))

\* Batches of at most n transactions, each well formed for the store the
\* ones before it leave; a TxApplyIf comes last.
\* The highest id generated once the transactions are sent.
RECURSIVE lastIdAfter(_, _)
lastIdAfter(given, rest) ==
  Only({IF txes = <<>> THEN last
        ELSE Only({lastIdAfter(
                     lastIdAfter(IF t.cls = "TxCreateDoc" /\ t.objectId > last
                                 THEN t.objectId ELSE last,
                                 Head(txes).txes),
                     Tail(txes))
                     : t \in {extractTx(Head(txes))}})
          : last \in {given}, txes \in {rest}})

RECURSIVE BatchesFrom(_, _, _)
BatchesFrom(store, given, n) ==
  IF n = 0 THEN {<<>>}
  ELSE UNION {{<<>>}
                \cup {<<t>> : t \in ApplyIfTxs(sim, last)}
                \cup UNION {{<<t>> \o rest
                               : rest \in BatchesFrom(simulate(sim, t), lastIdAfter(last, <<t>>), n - 1)}
                              : t \in PlainTxs(sim, last)}
               : sim \in {store}, last \in {given}}

RECURSIVE TxCount(_)
TxCount(list) ==
  Only({IF txes = <<>> THEN 0 ELSE 1 + TxCount(Head(txes).txes) + TxCount(Tail(txes))
          : txes \in {list}})

Min(a, b) == IF a <= b THEN a ELSE b

ModelTxCount(txes) ==
  Cardinality({i \in 1..Len(txes) :
     \/ txes[i].objectSpace = SpaceModel
     \/ \E k \in 1..Len(txes[i].txes) : txes[i].txes[k].objectSpace = SpaceModel})

\* One processTxes call, from its start to its return or throw.
Submit(txes) ==
  /\ callEnd = "none"
  /\ txes # <<>>
  /\ Len(model) + ModelTxCount(txes) <= MaxModel
  /\ sent + TxCount(txes) <= MaxSent
  /\ sent' = sent + TxCount(txes)
  /\ lastId' = lastIdAfter(lastId, txes)
  /\ \E st \in {processSteps(docs, model, hashes, txes)} :
       \E failAt \in FailSteps :
         \E r \in {processEnd(docs, st, failAt)} :
           /\ failAt \in {"none", r.at}
           /\ docs' = r.docs
           /\ model' = r.model
           /\ hashes' = r.hashes
           /\ modelErr' = (modelErr \/ r.err)
           /\ callEnd' = r.outcome
           /\ failedAt' = r.at
           /\ result' = r.result
           /\ callDerived' = r.derived
           /\ txLogged' = r.txLogged
           /\ ftTx' = r.ftTx
           /\ passes' = r.passes
           /\ diverged' = r.diverged
  /\ docs0' = docs
  /\ model0' = model
  /\ hashes0' = hashes
  /\ callTxes' = txes
  /\ DocFrame

\* apply / tx hand the results and the derived transactions to the caller:
\* the call is over and the next one may start.
Deliver ==
  /\ callEnd # "none"
  /\ callEnd' = "none"
  /\ failedAt' = "none"
  /\ callTxes' = <<>>
  /\ result' = <<>>
  /\ callDerived' = <<>>
  /\ txLogged' = <<>>
  /\ ftTx' = <<>>
  /\ passes' = 0
  /\ diverged' = FALSE
  /\ docs0' = docs
  /\ model0' = model
  /\ hashes0' = hashes
  /\ UNCHANGED <<docs, model, hashes, modelErr, sent, lastId>>
  /\ DocFrame

(***************************************************************************)
(* The parts of one processTxes call, followed one by one: verifyApplyIf   *)
(* on a TxApplyIf, routeTx on txToProcess, routeTx on each pass of derived *)
(* transactions.                                                           *)
(***************************************************************************)
NoGiven == [docs |-> NoRemoved, removed |-> NoRemoved, txes |-> <<>>]
NoRoute == RouteState(NoRemoved, NoRemoved, 0)
NoVerdict == [passed |-> FALSE, queries |-> <<>>]

\* Stores the server can hold: none, a Root, a Root with one Child in c1.
RootDoc == NewDoc("Root", "sp1")
ChildDoc == [NewDoc("Child", "sp1") EXCEPT !.attachedTo = 1, !.attachedToClass = "Root",
                                          !.collection = "c1"]
Stores ==
  {NoRemoved,
   [NoRemoved EXCEPT ![1] = RootDoc],
   [NoRemoved EXCEPT ![1] = [RootDoc EXCEPT !.cnt.c1 = 1], ![2] = ChildDoc]}

LastIdOf(d) == IF Live(d, 2) THEN 2 ELSE IF Live(d, 1) THEN 1 ELSE NoId

\* A transaction that is no TxCUD: a workspace event.
EventTx == BaseTx("TxWorkspaceEvent", NoId, "", SpaceTx, SpaceTx, ClientTime)

\* The clocks of the clients: modifiedOn is the sender's Date.now().
ClientTimes == {ClientTime, Now}

At(t, on) ==
  IF t.cls = "TxCollectionCUD"
  THEN [t EXCEPT !.modifiedOn = on, !.tx = <<[t.tx[1] EXCEPT !.modifiedOn = on]>>]
  ELSE [t EXCEPT !.modifiedOn = on]

RouteTxs(sim, last) ==
  {At(t, on) : t \in CreateRootTxs(last) \cup CreateChildTxs(sim, last) \cup RemoveTxs(sim)
                       \cup MoveTxs(sim) \cup {CfgTx, EventTx},
               on \in ClientTimes}

\* Batches of at most n transactions, each well formed for the store the
\* ones before it leave.
RECURSIVE RouteBatches(_, _, _)
RouteBatches(store, given, n) ==
  IF n = 0 THEN {<<>>}
  ELSE UNION {{<<>>}
                \cup UNION {{<<t>> \o rest
                               : rest \in RouteBatches(simulate(sim, t), lastIdAfter(last, <<t>>), n - 1)}
                              : t \in RouteTxs(sim, last)}
               : sim \in {store}, last \in {given}}

\* The predicate queries a TxApplyIf may hold.
Queries == {[cls |-> "Root", id |-> 1], [cls |-> "Child", id |-> 2], [cls |-> "Root", id |-> 3]}

\* processTxes line 755: verifyApplyIf(ctx, applyIf, _findAll).
Verify ==
  /\ unit = "none"
  /\ unit' = "verify"
  /\ \E d \in Stores, match \in SeqsUpTo(Queries, MaxQueries),
        notMatch \in SeqsUpTo(Queries, MaxQueries) :
       \E applyIf \in {createTxApplyIf("s1", match, notMatch, <<>>, ClientTime)} :
         /\ unitIn' = [docs |-> d, removed |-> NoRemoved, txes |-> <<applyIf>>]
         /\ verified' = verifyApplyIf(d, applyIf)
  /\ UNCHANGED <<routeTxes, route, routePass>>
  /\ PartFrame

\* processTxes line 780: routeTx(ctx, removedMap, ...txToProcess), its
\* adapter.tx call number `rejects` rejecting (0: none).
RouteClient ==
  /\ unit = "none"
  /\ unit' = "client"
  /\ \E d \in Stores :
       \E txes \in RouteBatches(d, LastIdOf(d), MaxRoute) \ {<<>>} :
         \E txToProcess \in {fillTxes(txes, EmptyAcc).process} :
           \E rejects \in 0..MaxRoute :
             \E r \in {routeLoop(RouteState(d, NoRemoved, rejects), <<>>, "", txToProcess)} :
               /\ rejects = 0 \/ r.thrown
               /\ unitIn' = [docs |-> d, removed |-> NoRemoved, txes |-> txes]
               /\ routeTxes' = txToProcess
               /\ route' = r
  /\ routePass' = 0
  /\ UNCHANGED verified
  /\ PartFrame

\* processDerived and processDerivedTxes up to the return of routeTx: the
\* transactions derived from the ones routed last, sorted and routed.
RouteDerived ==
  /\ unit \in {"client", "derived"}
  /\ ~route.thrown
  /\ unit = "derived" => routeTxes # <<>>
  /\ routePass < MaxPasses
  /\ unit' = "derived"
  /\ \E dv \in {derive(route.docs, routeTxes, route.removed)} :
       \E derived \in {sortByModifiedOn(dv.txs)} :
         \E rejects \in 0..MaxRoute :
           \E r \in {routeLoop(RouteState(route.docs, dv.removed, rejects), <<>>, "", derived)} :
             /\ rejects = 0 \/ r.thrown
             /\ unitIn' = [docs |-> route.docs, removed |-> dv.removed, txes |-> dv.txs]
             /\ routeTxes' = derived
             /\ route' = r
  /\ routePass' = routePass + 1
  /\ UNCHANGED verified
  /\ PartFrame

\* The call is over.
PartsDone ==
  /\ unit # "none"
  /\ unit' = "none"
  /\ unitIn' = NoGiven
  /\ routeTxes' = <<>>
  /\ route' = NoRoute
  /\ verified' = NoVerdict
  /\ routePass' = 0
  /\ PartFrame

(***************************************************************************)
(* Backup and restore (server/backup/src/backup.ts).                       *)
(*                                                                         *)
(* A document of the server is its body and the content hash the server    *)
(* reports for it. A body is named by the hash of its content.             *)
(***************************************************************************)
\* The domains of the hierarchy. The adapters of DOMAIN_MODEL (Null) and
\* DOMAIN_TRANSIENT (InMemory) report no documents to loadChunk.
DomainSpace == "space"
StoredDomains == {DomainTask, DomainSpace}
HierarchyDomains == <<DOMAIN_MODEL, DOMAIN_TRANSIENT, DomainTask, DomainSpace>>

DocIds(domain) ==
  IF domain = DomainTask THEN 1..MaxTaskDocs
  ELSE IF domain = DomainSpace THEN {MaxTaskDocs + 1}
  ELSE {}
AllDocIds == 1..(MaxTaskDocs + 1)
DomainOf(id) == IF id <= MaxTaskDocs THEN DomainTask ELSE DomainSpace

Hashes == {"h1", "h2"}
NoBody == [body |-> "none", hash |-> "none"]
Body(h) == [body |-> h, hash |-> h]

\* A JS Map: the entries <<key, value>> in insertion order.
MapHas(m, k) == \E i \in 1..Len(m) : m[i][1] = k
MapGet(m, k) == IF MapHas(m, k) THEN m[CHOOSE i \in 1..Len(m) : m[i][1] = k][2] ELSE Undefined
MapSet(m, k, v) ==
  IF MapHas(m, k) THEN [i \in 1..Len(m) |-> IF m[i][1] = k THEN <<k, v>> ELSE m[i]]
  ELSE Append(m, <<k, v>>)
MapDelete(m, k) == SelectSeq(m, LAMBDA entry : entry[1] # k)
MapKeys(m) == [i \in 1..Len(m) |-> m[i][1]]
MapEntries(m) == {m[i] : i \in 1..Len(m)}

\* Snapshot: added and updated are Maps id -> hash, removed a list of ids.
NoChanges == [added |-> <<>>, updated |-> <<>>, removed |-> <<>>]

\* writeChanges: the lines of a digest file. A line is the list of its
\* fields, `k;v` being <<k, v>>; ids and hashes hold no ';' and no newline.
writeChanges(changes) ==
  <<<<Len(changes.added)>>>> \o changes.added
    \o <<<<Len(changes.updated)>>>> \o changes.updated
    \o <<<<Len(changes.removed)>>>> \o [i \in 1..Len(changes.removed) |-> <<changes.removed[i]>>]

\* parseInt(dataBlob.shift() ?? '0'), dataBlob.splice(0, count): the count,
\* the lines it announces and the lines after them.
Section(dataBlob) ==
  IF dataBlob = <<>> THEN [items |-> <<>>, rest |-> <<>>]
  ELSE [items |-> SubSeq(dataBlob, 2, Min(dataBlob[1][1], Len(dataBlob) - 1) + 1),
        rest |-> SubSeq(dataBlob, Min(dataBlob[1][1], Len(dataBlob) - 1) + 2, Len(dataBlob))]

\* for (const it of added) { [k, v] = it.split(';'); res.set(k, v) }
RECURSIVE setAll(_, _)
setAll(map, lines) ==
  Only({IF items = <<>> THEN res
        ELSE setAll(MapSet(res, Head(items)[1], Head(items)[2]), Tail(items))
          : res \in {map}, items \in {lines}})

\* for (const k of removed) res.delete(k)
RECURSIVE deleteAll(_, _)
deleteAll(map, lines) ==
  Only({IF items = <<>> THEN res
        ELSE deleteAll(MapDelete(res, Head(items)[1]), Tail(items))
          : res \in {map}, items \in {lines}})

\* A digest file loaded without its removed records.
loadFileKeepRemoved(map, file) ==
  Only({Only({setAll(setAll(map, added.items), updated.items)
                : updated \in {Section(added.rest)}})
          : added \in {Section(file)}})

\* One digest file of the line format loaded into the cumulative map.
loadFile(map, file) ==
  Only({Only({Only({deleteAll(setAll(setAll(map, added.items), updated.items), removed.items)
                      : removed \in {Section(updated.rest)}})
                : updated \in {Section(added.rest)}})
          : added \in {Section(file)}})

RECURSIVE loadFiles(_, _)
loadFiles(map, files) ==
  Only({IF list = <<>> THEN res ELSE loadFiles(loadFile(res, Head(list)), Tail(list))
          : res \in {map}, list \in {files}})

\* DomainData of a snapshot; NoDomainData when the snapshot has no entry for
\* the domain. snapshot is the legacy JSON digest (<<>> or <<Snapshot>>),
\* snapshots the digest files, storage the archive files (lists of
\* [id, body] entries). records keeps the Snapshot each digest was written
\* from, in the order of the digests.
NoDomainData ==
  [present |-> FALSE, snapshot |-> <<>>, snapshots |-> <<>>, storage |-> <<>>, records |-> <<>>]

\* The legacy JSON digest: Object.entries of added and updated, removed.
loadLegacy(map, legacy) ==
  IF legacy = <<>> THEN map
  ELSE deleteAll(setAll(setAll(map, legacy[1].added), legacy[1].updated),
                 [i \in 1..Len(legacy[1].removed) |-> <<legacy[1].removed[i]>>])

NoDate == -1

\* loadDigest(ctx, storage, snapshots, domain, date).
RECURSIVE loadDigestFrom(_, _, _, _)
loadDigestFrom(map, snapshots, domain, date) ==
  Only({IF list = <<>> THEN res
        ELSE Only({IF date # NoDate /\ date = Head(list).date THEN loaded
                   ELSE loadDigestFrom(loaded, Tail(list), domain, date)
                     : loaded \in {loadFiles(loadLegacy(res, Head(list).domains[domain].snapshot),
                                            Head(list).domains[domain].snapshots)}})
          : res \in {map}, list \in {snapshots}})

loadDigest(snapshots, domain, date) == loadDigestFrom(<<>>, snapshots, domain, date)

\* The thresholds of backup.ts in units of one document (each document and
\* each archive entry has size 1).
DocSize == 1
retrieveChunkSize == 1
dataBlobSize == 1
ChunkDocs == 2                \* documents in one chunk of the server's cursor

\* What loadChunk streams for a domain: { id, hash, size } of every stored
\* document, in id order.
RECURSIVE StreamFrom(_, _, _)
StreamFrom(srv, domain, from) ==
  IF from > MaxTaskDocs + 1 THEN <<>>
  ELSE (IF from \in DocIds(domain) /\ srv[from] # NoBody
        THEN <<[id |-> from, hash |-> srv[from].hash, size |-> DocSize]>> ELSE <<>>)
         \o StreamFrom(srv, domain, from + 1)

Stream(srv, domain) == StreamFrom(srv, domain, 1)

\* The chunks of the cursor: the last one has finished = true.
ChunkCount(stream) == IF stream = <<>> THEN 1 ELSE (Len(stream) + ChunkDocs - 1) \div ChunkDocs
loadChunk(stream, n) ==
  [docs |-> SubSeq(stream, (n - 1) * ChunkDocs + 1, Min(n * ChunkDocs, Len(stream))),
   finished |-> n = ChunkCount(stream)]

\* The body of the for loop of loadChangesFromServer over the documents of a
\* chunk. st holds digest, changes, changed, needRetrieveChunks, and the
\* chunk's needRetrieve and currentNeedRetrieveSize; classified lists what
\* each reported id was taken for.
classify(state, doc) ==
  Only({Only({IF next.currentNeedRetrieveSize > retrieveChunkSize
              THEN [next EXCEPT !.needRetrieveChunks = Append(@, next.needRetrieve),
                                !.currentNeedRetrieveSize = 0,
                                !.needRetrieve = <<>>]
              ELSE next
                : next \in {IF kHash # Undefined
                            THEN IF kHash # doc.hash
                                 THEN [st EXCEPT !.digest = MapDelete(@, doc.id),
                                                 !.changes.updated = MapSet(@, doc.id, doc.hash),
                                                 !.needRetrieve = Append(@, doc.id),
                                                 !.currentNeedRetrieveSize = @ + doc.size,
                                                 !.changed = @ + 1,
                                                 !.classified = Append(@, <<doc.id, "updated">>)]
                                 ELSE [st EXCEPT !.digest = MapDelete(@, doc.id),
                                                 !.classified = Append(@, <<doc.id, "unchanged">>)]
                            ELSE [st EXCEPT !.changes.added = MapSet(@, doc.id, doc.hash),
                                            !.needRetrieve = Append(@, doc.id),
                                            !.changed = @ + 1,
                                            !.currentNeedRetrieveSize = @ + doc.size,
                                            !.classified = Append(@, <<doc.id, "added">>)]}})
          : st \in {state}, kHash \in {MapGet(state.digest, doc.id)}})

RECURSIVE classifyAll(_, _)
classifyAll(state, chunkDocs) ==
  Only({IF list = <<>> THEN st ELSE classifyAll(classify(st, Head(list)), Tail(list))
          : st \in {state}, list \in {chunkDocs}})


\* One pass of the try block: the documents of the chunk are classified and
\* the ids left in needRetrieve become a batch.
scanChunk(state, chunk) ==
  Only({[after EXCEPT !.needRetrieveChunks = IF after.needRetrieve # <<>>
                                             THEN Append(@, after.needRetrieve) ELSE @,
                      !.needRetrieve = <<>>,
                      !.currentNeedRetrieveSize = 0]
          : after \in {classifyAll([state EXCEPT !.calls = @ + 1], chunk.docs)}})

\* The catch block: closeChunk, idx = undefined. What the failed pass and the
\* passes before it put into digest, changes and needRetrieveChunks stays.
scanRetry(state) == [state EXCEPT !.calls = @ + 1, !.idx = 1]

\* The while loop of loadChangesFromServer. The loadChunk call number
\* `rejects` rejects (0: none): the catch block closes the cursor and the
\* loop starts again with idx = undefined.
RECURSIVE chunkLoop(_, _, _)
chunkLoop(state, stream, rejects) ==
  Only({IF st.calls + 1 = rejects
        THEN chunkLoop(scanRetry(st), stream, rejects)
        ELSE Only({IF chunk.finished THEN done
                   ELSE chunkLoop([done EXCEPT !.idx = @ + 1], stream, rejects)
                     : chunk \in {loadChunk(stream, st.idx)},
                       done \in {scanChunk(st, loadChunk(stream, st.idx))}})
          : st \in {state}})

\* The locals of loadChangesFromServer before its loop.
newScan(digest0, changes) ==
  [digest |-> digest0, changes |-> changes, changed |-> 0,
   needRetrieveChunks |-> <<>>, needRetrieve |-> <<>>,
   currentNeedRetrieveSize |-> 0, classified |-> <<>>, calls |-> 0, idx |-> 1]

\* loadChangesFromServer(ctx, domain, digest, changes).
loadChangesFromServer(stream, digest0, changes, rejects) ==
  chunkLoop(newScan(digest0, changes), stream, rejects)

\* connection.loadDocs(domain, ids): the stored documents among ids.
loadDocs(srv, ids) ==
  SelectSeq([i \in 1..Len(ids) |-> [id |-> ids[i], body |-> srv[ids[i]].body]],
            LAMBDA doc : srv[doc.id] # NoBody)

\* A digest file of processedChanges is written and processedChanges cleared.
sealChanges(state) ==
  [state EXCEPT !.domainInfo.present = TRUE,
                !.domainInfo.snapshots = Append(@, writeChanges(state.processedChanges)),
                !.domainInfo.records = Append(@, state.processedChanges),
                !.processedChanges = NoChanges]

\* while (docs.length > 0): the document moves from changes to
\* processedChanges and becomes an entry of the open archive file.
RECURSIVE packDocs(_, _)
packDocs(state, loaded) ==
  Only({IF list = <<>> THEN st
        ELSE packDocs(
               [(IF MapHas(st.changes.added, Head(list).id)
                 THEN [st EXCEPT !.processedChanges.added =
                                    MapSet(@, Head(list).id, MapGet(st.changes.added, Head(list).id)),
                                 !.changes.added = MapDelete(@, Head(list).id)]
                 ELSE [st EXCEPT !.processedChanges.updated =
                                    MapSet(@, Head(list).id,
                                           IF MapHas(st.changes.updated, Head(list).id)
                                           THEN MapGet(st.changes.updated, Head(list).id) ELSE ""),
                                 !.changes.updated = MapDelete(@, Head(list).id)])
                  EXCEPT !.addedDocuments = @ + DocSize,
                         !.domainInfo.storage[Len(st.domainInfo.storage)] = Append(@, Head(list))],
               Tail(list))
          : st \in {state}, list \in {loaded}})

\* The roll-over with its digest file written from `changes`, the ids still
\* to be retrieved, instead of processedChanges.
rollOverFromChanges(state) ==
  IF state.addedDocuments > dataBlobSize /\ state.pack
  THEN IF state.changed > 0
       THEN [state EXCEPT !.pack = FALSE, !.addedDocuments = 0,
                          !.domainInfo.present = TRUE,
                          !.domainInfo.snapshots = Append(@, writeChanges(state.changes)),
                          !.domainInfo.records = Append(@, state.changes),
                          !.processedChanges = NoChanges]
       ELSE [state EXCEPT !.pack = FALSE, !.addedDocuments = 0]
  ELSE state

\* if (addedDocuments > dataBlobSize && _pack !== undefined): the archive
\* file is closed and, when something changed, a digest file written.
rollOver(state) ==
  IF state.addedDocuments > dataBlobSize /\ state.pack
  THEN Only({IF state.changed > 0 THEN sealChanges(closed) ELSE closed
               : closed \in {[state EXCEPT !.pack = FALSE, !.addedDocuments = 0]}})
  ELSE state

\* if (_pack === undefined): a new archive file is opened.
openPack(state) ==
  IF ~state.pack
  THEN [state EXCEPT !.pack = TRUE, !.domainInfo.storage = Append(@, <<>>)]
  ELSE state

\* while (needRetrieveChunks.length > 0): roll the archive file over when it
\* is full, open one when none is open, pack the documents of the batch.
RECURSIVE retrieveLoop(_, _, _)
retrieveLoop(state, srv, needRetrieveChunks) ==
  Only({IF chunks = <<>> THEN st
        ELSE retrieveLoop(packDocs(openPack(rollOver(st)), loadDocs(srv, Head(chunks))),
                          srv, Tail(chunks))
          : st \in {state}, chunks \in {needRetrieveChunks}})

\* The locals of processDomain after loadChangesFromServer.
newRetrieve(lc) ==
  [changes |-> lc.changes, processedChanges |-> NoChanges, changed |-> lc.changed,
   domainInfo |-> NoDomainData, pack |-> FALSE, addedDocuments |-> 0]

\* After the retrieve loop: what is left of the digest was removed on the
\* server; when something changed the last digest file is written.
finishDomain(packed, left) ==
  Only({IF final.changed > 0 THEN sealChanges(final) ELSE final
          : final \in {[packed EXCEPT !.processedChanges.removed = MapKeys(left),
                                      !.changed = IF left # <<>> THEN @ + 1 ELSE @]}})

\* backup's processDomain: the DomainData the run records for the domain
\* (NoDomainData when nothing changed) and what loadChangesFromServer made of
\* the ids the server reported.
backupDomain(snapshots, srv, domain, rejects) ==
  Only({Only({[domainInfo |-> IF final.changed > 0 THEN final.domainInfo ELSE NoDomainData,
               classified |-> lc.classified,
               digest |-> loadDigest(snapshots, domain, NoDate),
               removed |-> MapKeys(lc.digest)]
                : final \in {finishDomain(retrieveLoop(newRetrieve(lc), srv,
                                                       lc.needRetrieveChunks),
                                          lc.digest)}})
          : lc \in {loadChangesFromServer(Stream(srv, domain),
                                          loadDigest(snapshots, domain, NoDate),
                                          NoChanges, rejects)}})

\* The domains a backup run walks.
backupDomains(skipDomains) ==
  SelectSeq(HierarchyDomains,
            LAMBDA it : it # DOMAIN_TRANSIENT /\ it # DOMAIN_MODEL /\ it \notin skipDomains)

NoDomains == [domain \in {HierarchyDomains[i] : i \in 1..Len(HierarchyDomains)} |-> NoDomainData]

\* The loop over the domains: each adds its DomainData to the new snapshot,
\* the last of info.snapshots.
RECURSIVE backupLoop(_, _, _, _)
backupLoop(state, srv, domains, rejects) ==
  Only({IF list = <<>> THEN st
        ELSE Only({backupLoop([info |-> [st.info EXCEPT
                                           !.snapshots[Len(st.info.snapshots)].domains[Head(list)] =
                                              done.domainInfo],
                               classified |-> [st.classified EXCEPT ![Head(list)] = done.classified],
                               digest |-> [st.digest EXCEPT ![Head(list)] = done.digest],
                               removed |-> [st.removed EXCEPT ![Head(list)] = done.removed]],
                              srv, Tail(list), rejects)
                     : done \in {backupDomain(st.info.snapshots, srv, Head(list),
                                              IF Head(list) = DomainTask THEN rejects ELSE 0)}})
          : st \in {state}, list \in {domains}})

NoLists == [domain \in {HierarchyDomains[i] : i \in 1..Len(HierarchyDomains)} |-> <<>>]

\* Transactions are numbered from 1; NoTxId stands for a manifest that names
\* no last transaction (lastTxId undefined or '').
NoTxId == 0

\* A backup run that does not look at the last transaction.
backupRunAlways(info, srv, lastTxId, date, skipDomains, force, rejects) ==
  IF FALSE
  THEN [info |-> info, classified |-> NoLists, digest |-> NoLists, removed |-> NoLists,
        skipped |-> TRUE]
  ELSE Only({[info |-> [done.info EXCEPT !.lastTxId = lastTxId, !.version = "0.6.2"],
              classified |-> done.classified, digest |-> done.digest, removed |-> done.removed,
              skipped |-> FALSE]
               : done \in {backupLoop([info |-> [info EXCEPT
                                                  !.lastTxId = NoTxId,
                                                  !.snapshots = Append(@, [date |-> date,
                                                                           domains |-> NoDomains])],
                                       classified |-> NoLists, digest |-> NoLists,
                                       removed |-> NoLists],
                                      srv, backupDomains(skipDomains), rejects)}})

\* backup(...): the manifest after the run. The run is skipped when the last
\* transaction is the one the manifest names and force is not set.
backupRun(info, srv, lastTxId, date, skipDomains, force, rejects) ==
  IF lastTxId = info.lastTxId /\ ~force
  THEN [info |-> info, classified |-> NoLists, digest |-> NoLists, removed |-> NoLists,
        skipped |-> TRUE]
  ELSE Only({[info |-> [done.info EXCEPT !.lastTxId = lastTxId, !.version = "0.6.2"],
              classified |-> done.classified, digest |-> done.digest, removed |-> done.removed,
              skipped |-> FALSE]
               : done \in {backupLoop([info |-> [info EXCEPT
                                                  !.lastTxId = NoTxId,
                                                  !.snapshots = Append(@, [date |-> date,
                                                                           domains |-> NoDomains])],
                                       classified |-> NoLists, digest |-> NoLists,
                                       removed |-> NoLists],
                                      srv, backupDomains(skipDomains), rejects)}})

\* The archive entries of one storage file uploaded whether required or not.
RECURSIVE extractEntriesAll(_, _, _)
extractEntriesAll(state, entries, changeset) ==
  Only({IF list = <<>> THEN st
        ELSE extractEntriesAll(
               [st EXCEPT !.srv[Head(list).id] = [body |-> Head(list).body,
                                                  hash |-> MapGet(changeset, Head(list).id)],
                          !.docsToAdd = MapDelete(@, Head(list).id),
                          !.requiredDocs = MapDelete(@, Head(list).id),
                          !.uploads = Append(@, [id |-> Head(list).id,
                                                 body |-> Head(list).body,
                                                 from |-> st.from])],
               Tail(list), changeset)
          : st \in {state}, list \in {entries}})

\* restore's processDomain, the archive entries of one storage file: an
\* entry whose id is still required is uploaded with the hash the changeset
\* has for it.
RECURSIVE extractEntries(_, _, _)
extractEntries(state, entries, changeset) ==
  Only({IF list = <<>> THEN st
        ELSE extractEntries(
               IF MapHas(st.requiredDocs, Head(list).id)
               THEN [st EXCEPT !.srv[Head(list).id] = [body |-> Head(list).body,
                                                       hash |-> MapGet(changeset, Head(list).id)],
                               !.docsToAdd = MapDelete(@, Head(list).id),
                               !.requiredDocs = MapDelete(@, Head(list).id),
                               !.uploads = Append(@, [id |-> Head(list).id,
                                                      body |-> Head(list).body,
                                                      from |-> st.from])]
               ELSE st,
               Tail(list), changeset)
          : st \in {state}, list \in {entries}})

\* for (const sf of d.storage ?? [])
RECURSIVE extractFiles(_, _, _)
extractFiles(state, storage, changeset) ==
  Only({IF files = <<>> \/ st.docsToAdd = <<>> THEN st
        ELSE extractFiles(extractEntries(st, Head(files), changeset), Tail(files), changeset)
          : st \in {state}, files \in {storage}})

\* for (const s of rsnapshots): the snapshots newest first.
RECURSIVE replay(_, _, _, _)
replay(state, rsnapshots, c, changeset) ==
  Only({IF list = <<>> THEN st
        ELSE replay(
               IF Head(list).domains[c].present /\ st.docsToAdd # <<>>
               THEN Only({IF requiredDocs # <<>>
                          THEN extractFiles([st EXCEPT !.requiredDocs = requiredDocs,
                                                       !.from = Head(list).date],
                                            Head(list).domains[c].storage, changeset)
                          ELSE st
                            : requiredDocs \in {SelectSeq(loadDigest(<<Head(list)>>, c, NoDate),
                                                          LAMBDA entry : MapHas(st.docsToAdd, entry[1]))}})
               ELSE st,
               Tail(list), c, changeset)
          : st \in {state}, list \in {rsnapshots}})

Reverse(s) == [i \in 1..Len(s) |-> s[Len(s) + 1 - i]]

RECURSIVE cleanAll(_, _)
cleanAll(srv, ids) ==
  IF ids = <<>> THEN srv ELSE cleanAll([srv EXCEPT ![Head(ids)] = NoBody], Tail(ids))

\* restore's processDomain(c): the server after it, docsToAdd as computed
\* and the remove set.
restoreDomain(snapshots, srv, c, date, merge) ==
  Only({Only({Only({[srv |-> IF docsToRemove # <<>> /\ ~merge
                             THEN cleanAll(done.srv, docsToRemove) ELSE done.srv,
                     docsToAdd |-> docsToAdd,
                     docsToRemove |-> docsToRemove,
                     uploads |-> done.uploads,
                     cleaned |-> IF docsToRemove # <<>> /\ ~merge THEN docsToRemove ELSE <<>>]
                      : done \in {replay([srv |-> srv, docsToAdd |-> docsToAdd, requiredDocs |-> <<>>,
                                          uploads |-> <<>>, from |-> NoDate],
                                         Reverse(snapshots), c, changeset)}})
                : docsToAdd \in {SelectSeq(changeset,
                                           LAMBDA entry : MapGet(serverChangeset, entry[1]) # entry[2])},
                  docsToRemove \in {SelectSeq(MapKeys(serverChangeset),
                                              LAMBDA it : ~MapHas(changeset, it))}})
          : changeset \in {loadDigest(snapshots, c, date)},
            serverChangeset \in {[i \in 1..Len(Stream(srv, c)) |->
                                    <<Stream(srv, c)[i].id, Stream(srv, c)[i].hash>>]}})

RECURSIVE restoreLoop(_, _, _, _, _)
restoreLoop(state, snapshots, domains, date, merge) ==
  Only({IF list = <<>> THEN st
        ELSE Only({restoreLoop([srv |-> done.srv,
                                docsToAdd |-> [st.docsToAdd EXCEPT ![Head(list)] = done.docsToAdd],
                                docsToRemove |-> [st.docsToRemove EXCEPT ![Head(list)] = done.docsToRemove],
                                uploads |-> [st.uploads EXCEPT ![Head(list)] = done.uploads],
                                cleaned |-> [st.cleaned EXCEPT ![Head(list)] = done.cleaned]],
                               snapshots, Tail(list), date, merge)
                     : done \in {restoreDomain(snapshots, st.srv, Head(list), date, merge)}})
          : st \in {state}, list \in {domains}})

\* The index of the snapshot made at date, 0 for none (findIndex).
findIndex(snapshots, date) ==
  IF \E i \in 1..Len(snapshots) : snapshots[i].date = date
  THEN CHOOSE i \in 1..Len(snapshots) :
         snapshots[i].date = date /\ \A j \in 1..(i - 1) : snapshots[j].date # date
  ELSE 0

\* restore(..., date, merge) on a manifest with a snapshot of that date
\* (date = -1: the last one): every domain of the snapshots and of the
\* hierarchy is processed.
restoreRun(info, srv, date, merge) ==
  Only({restoreLoop([srv |-> srv, docsToAdd |-> NoLists, docsToRemove |-> NoLists,
                     uploads |-> NoLists, cleaned |-> NoLists],
                    snapshots, HierarchyDomains, snapshots[Len(snapshots)].date, merge)
          : snapshots \in {IF date # NoDate
                           THEN SubSeq(info.snapshots, 1, findIndex(info.snapshots, date))
                           ELSE info.snapshots}})

(***************************************************************************)
(* The server and a backup storage over time: transactions change the     *)
(* documents, backup runs add snapshots, restore runs rewrite the server.  *)
(***************************************************************************)
EmptyServer == [id \in AllDocIds |-> NoBody]
SeededServer ==
  [id \in AllDocIds |-> IF id \in {1, 2, MaxTaskDocs + 1} THEN Body("h1") ELSE NoBody]

NoBackup == [snapshots |-> <<>>, lastTxId |-> NoTxId, version |-> "0.6.2"]

\* A manifest written before version 0.6.2: one snapshot whose digests are
\* the JSON form, taken of srv at its last transaction.
LegacyData(srv, domain) ==
  IF Stream(srv, domain) = <<>> THEN NoDomainData
  ELSE Only({[NoDomainData EXCEPT
                !.present = TRUE,
                !.snapshot = <<legacy>>,
                !.records = <<legacy>>,
                !.storage = <<[i \in 1..Len(Stream(srv, domain)) |->
                                 [id |-> Stream(srv, domain)[i].id,
                                  body |-> srv[Stream(srv, domain)[i].id].body]]>>]
               : legacy \in {[NoChanges EXCEPT
                                !.added = [i \in 1..Len(Stream(srv, domain)) |->
                                             <<Stream(srv, domain)[i].id,
                                               Stream(srv, domain)[i].hash>>]]}})
LegacyBackup(srv) ==
  [snapshots |-> <<[date |-> 0,
                    domains |-> [domain \in DOMAIN NoDomains |-> LegacyData(srv, domain)]]>>,
   lastTxId |-> 1, version |-> "0.6.1"]

\* Such a manifest with two snapshots: since the first, document 1 was
\* updated and document MaxTaskDocs removed.
LegacyBackups(srv) ==
  [snapshots |->
     <<[date |-> 0,
        domains |-> [domain \in DOMAIN NoDomains |->
                       LegacyData([srv EXCEPT ![1] = Body("h2"), ![MaxTaskDocs] = Body("h1")],
                                  domain)]],
       [date |-> 1,
        domains |-> [NoDomains EXCEPT
                       ![DomainTask] =
                          Only({[NoDomainData EXCEPT !.present = TRUE,
                                                     !.snapshot = <<legacy>>,
                                                     !.records = <<legacy>>,
                                                     !.storage = <<<<[id |-> 1, body |-> srv[1].body]>>>>]
                                  : legacy \in {[added |-> <<>>,
                                                 updated |-> <<<<1, srv[1].hash>>>>,
                                                 removed |-> <<MaxTaskDocs>>]}})]]>>,
   lastTxId |-> 1, version |-> "0.6.1"]

NoJob ==
  [op |-> "none", skipped |-> FALSE, date |-> NoDate, skipDomains |-> {}, rejects |-> 0,
   classified |-> NoLists, digest |-> NoLists, removed |-> NoLists,
   before |-> [id \in AllDocIds |-> NoBody], docsToAdd |-> NoLists, docsToRemove |-> NoLists,
   afterBackup |-> FALSE, force |-> FALSE, merge |-> FALSE, uploads |-> NoLists,
   cleaned |-> NoLists, replaced |-> <<>>, version |-> "", events |-> <<>>]

\* A transaction creates, updates or removes one document.
ServerTx ==
  /\ edits < MaxEdits
  /\ \E id \in AllDocIds :
       \E next \in {Body(h) : h \in Hashes} \cup {NoBody} :
         /\ next # server[id]
         /\ server' = [server EXCEPT ![id] = next]
  /\ lastTx' = lastTx + 1
  /\ edits' = edits + 1
  /\ job' = NoJob
  /\ UNCHANGED <<backupInfo, clock>>
  /\ BackupFrame

\* backup(ctx, transactorUrl, workspaceId, storage, skipDomains, force); the
\* loadChunk call number `rejects` on the task domain rejects once.
Backup ==
  /\ Len(backupInfo.snapshots) < MaxSnapshots
  /\ \E skipDomains \in SUBSET StoredDomains, force \in BOOLEAN, rejects \in 0..MaxTaskDocs :
       \E r \in {backupRun(backupInfo, server, lastTx, clock, skipDomains, force, rejects)} :
         /\ rejects = 0 \/ (~r.skipped /\ DomainTask \notin skipDomains
                              /\ rejects <= ChunkCount(Stream(server, DomainTask)))
         /\ backupInfo' = r.info
         /\ job' = [NoJob EXCEPT !.op = "backup", !.skipped = r.skipped, !.date = clock,
                                 !.skipDomains = skipDomains, !.rejects = rejects,
                                 !.force = force,
                                 !.classified = r.classified, !.digest = r.digest,
                                 !.removed = r.removed]
  /\ clock' = IF job'.skipped THEN clock ELSE clock + 1
  /\ UNCHANGED <<server, lastTx, edits>>
  /\ BackupFrame

\* restore(ctx, transactorUrl, workspaceId, storage, date, merge).
Restore ==
  /\ backupInfo.snapshots # <<>>
  /\ edits < MaxEdits
  /\ \E date \in {backupInfo.snapshots[i].date : i \in 1..Len(backupInfo.snapshots)} \cup {NoDate},
        merge \in BOOLEAN :
       \E r \in {restoreRun(backupInfo, server, date, merge)} :
         /\ server' = r.srv
         /\ job' = [NoJob EXCEPT !.op = "restore", !.date = date, !.before = server,
                                 !.docsToAdd = r.docsToAdd, !.docsToRemove = r.docsToRemove,
                                 !.merge = merge, !.uploads = r.uploads, !.cleaned = r.cleaned,
                                 !.skipDomains = job.skipDomains, !.rejects = job.rejects,
                                 !.afterBackup =
                                    /\ job.op = "backup"
                                    /\ ~job.skipped
                                    /\ date \in {job.date, NoDate}]
  /\ edits' = edits + 1
  /\ UNCHANGED <<backupInfo, lastTx, clock>>
  /\ BackupFrame

\* compactBackup's pushDocs for one document: the open archive file is
\* closed and a digest written when it is full, one is opened when none is
\* open, the document becomes an entry and an added record.
pushDocs(state, doc) ==
  Only({Only({Only({[opened EXCEPT
                       !.pack = TRUE,
                       !.processedChanges.added = MapSet(@, doc.id, MapGet(opened.digestAdded, doc.id)),
                       !.addedDocuments = @ + DocSize,
                       !.domainInfo.storage[Len(opened.domainInfo.storage)] = Append(@, doc)]
                      : opened \in {IF ~rolled.pack
                                    THEN [rolled EXCEPT !.domainInfo.storage = Append(@, <<>>)]
                                    ELSE rolled}})
                : rolled \in {IF st.addedDocuments > dataBlobSize /\ st.pack
                              THEN [sealChanges([st EXCEPT !.pack = FALSE, !.addedDocuments = 0])
                                      EXCEPT !.events = @ \o <<"writeChanges", "writeFile">>]
                              ELSE st}})
          : st \in {[state EXCEPT !.addedDocuments = @ + DocSize, !.changed = @ + 1]}})

\* compactBackup's sendChunk: the hash moves from digest to digestAdded.
compactChunk(state, doc) ==
  pushDocs([state EXCEPT !.digest = MapDelete(@, doc.id),
                         !.digestAdded = MapSet(@, doc.id,
                                                IF MapHas(state.digest, doc.id)
                                                THEN MapGet(state.digest, doc.id) ELSE "")],
           doc)

\* The entries of one storage file taken over whether required or not, each
\* with the hash the digest has for it.
RECURSIVE compactEntriesAll(_, _)
compactEntriesAll(state, entries) ==
  Only({IF list = <<>> THEN st
        ELSE compactEntriesAll(compactChunk(st, Head(list)), Tail(list))
          : st \in {state}, list \in {entries}})

\* The entries of one storage file of an old snapshot.
RECURSIVE compactEntries(_, _)
compactEntries(state, entries) ==
  Only({IF list = <<>> THEN st
        ELSE compactEntries(
               IF MapHas(st.requiredDocs, Head(list).id)
               THEN [compactChunk(st, Head(list)) EXCEPT !.requiredDocs = MapDelete(@, Head(list).id)]
               ELSE st,
               Tail(list))
          : st \in {state}, list \in {entries}})

RECURSIVE compactFiles(_, _)
compactFiles(state, storage) ==
  Only({IF files = <<>> \/ st.digest = <<>> THEN st
        ELSE compactFiles(compactEntries(st, Head(files)), Tail(files))
          : st \in {state}, files \in {storage}})

\* for (const s of rsnapshots) of compactBackup.
RECURSIVE compactReplay(_, _, _)
compactReplay(state, rsnapshots, domain) ==
  Only({IF list = <<>> THEN st
        ELSE compactReplay(
               IF Head(list).domains[domain].present /\ st.digest # <<>>
               THEN Only({IF requiredDocs # <<>>
                          THEN compactFiles([st EXCEPT !.requiredDocs = requiredDocs],
                                            Head(list).domains[domain].storage)
                          ELSE st
                            : requiredDocs \in {SelectSeq(loadDigest(<<Head(list)>>, domain, NoDate),
                                                          LAMBDA entry : MapHas(st.digest, entry[1]))}})
               ELSE st,
               Tail(list), domain)
          : st \in {state}, list \in {rsnapshots}})

\* The body of `for (const domain of domains)`: the DomainData of the new
\* snapshot and the files written, in order.
compactDomain(oldSnapshots, domain) ==
  Only({IF done.changed > 0
        THEN [domainInfo |-> sealChanges(done).domainInfo,
              events |-> done.events \o <<"writeChanges", "writeFile">>]
        ELSE [domainInfo |-> NoDomainData, events |-> done.events]
          : done \in {compactReplay([digest |-> loadDigest(oldSnapshots, domain, NoDate),
                                     digestAdded |-> <<>>, requiredDocs |-> <<>>,
                                     processedChanges |-> NoChanges, changed |-> 0,
                                     domainInfo |-> NoDomainData, pack |-> FALSE,
                                     addedDocuments |-> 0, events |-> <<>>],
                                    Reverse(oldSnapshots), domain)}})

\* The domains that have an entry in some old snapshot.
compactDomains(oldSnapshots) ==
  SelectSeq(HierarchyDomains,
            LAMBDA it : \E k \in 1..Len(oldSnapshots) : oldSnapshots[k].domains[it].present)

RECURSIVE compactLoop(_, _, _)
compactLoop(state, oldSnapshots, domains) ==
  Only({IF list = <<>> THEN st
        ELSE Only({compactLoop([info |-> [st.info EXCEPT !.snapshots[1].domains[Head(list)] =
                                                           done.domainInfo],
                                events |-> st.events \o done.events],
                               oldSnapshots, Tail(list))
                     : done \in {compactDomain(oldSnapshots, Head(list))}})
          : st \in {state}, list \in {domains}})

\* storage.delete of the files of the old snapshots.
deleteOld(oldSnapshots) ==
  [i \in 1..Cardinality({<<k, c>> \in (1..Len(oldSnapshots)) \X DOMAIN NoDomains :
                           oldSnapshots[k].domains[c].present}) |-> "delete"]

\* compactBackup(ctx, storage, force): the manifest after the run and the
\* storage calls it made. A manifest with no snapshot stands for a storage
\* without backup.json.gz.
compactBackup(info, date, force) ==
  IF \/ info.snapshots = <<>>
     \/ info.version # "0.6.2"
     \/ (Len(info.snapshots) < CompactFrom /\ ~force)
  THEN [info |-> info, events |-> <<>>, skipped |-> TRUE]
  ELSE Only({[info |-> done.info,
              events |-> done.events \o deleteOld(info.snapshots) \o <<"writeFile">>,
              skipped |-> FALSE]
               : done \in {compactLoop([info |-> [info EXCEPT !.snapshots =
                                                    <<[date |-> date, domains |-> NoDomains]>>],
                                        events |-> <<>>],
                                       info.snapshots, compactDomains(info.snapshots))}})

\* compactBackup(ctx, storage, force).
Compact ==
  /\ edits < MaxEdits
  /\ \E force \in BOOLEAN :
       \E r \in {compactBackup(backupInfo, clock, force)} :
         /\ backupInfo' = r.info
         /\ job' = [NoJob EXCEPT !.op = "compact", !.skipped = r.skipped, !.date = clock,
                                 !.force = force, !.replaced = backupInfo.snapshots,
                                 !.version = backupInfo.version, !.events = r.events]
  /\ clock' = IF job'.skipped THEN clock ELSE clock + 1
  /\ edits' = edits + 1
  /\ UNCHANGED <<server, lastTx>>
  /\ BackupFrame

(***************************************************************************)
(* One backup run, step by step. A step is what the run does between two   *)
(* awaits: the timer of `timeout` and the outcome of a call to the server  *)
(* come in between the steps.                                              *)
(***************************************************************************)

NoScan == newScan(<<>>, NoChanges)
NoRetrieve == newRetrieve(NoScan)

\* pc: where the run is. info: backupInfo in memory, infoFile: backup.json.gz.
\* packed: documents written to archive files, started: domains started,
\* errors: 'failed to load chunks' reports, modulo 2.
IdleRun ==
  [pc |-> "idle", srv |-> EmptyServer, lastTxId |-> NoTxId, force |-> FALSE,
   info |-> NoBackup, infoFile |-> NoBackup, domains |-> <<>>, domain |-> "",
   canceled |-> FALSE, scan |-> NoScan, dom |-> NoRetrieve, chunks |-> <<>>,
   needRetrieve |-> <<>>, packed |-> 0, started |-> 0, errors |-> 0]

\* snapshot.domains[domain] = domainInfo: from the first digest file of the
\* domain on, the manifest in memory shows domainInfo as it is.
recordDomain(r, dom) ==
  IF dom.domainInfo.present
  THEN [r.info EXCEPT !.snapshots[Len(r.info.snapshots)].domains[r.domain] = dom.domainInfo]
  ELSE r.info

\* A digest file is followed by storage.writeFile(infoFile, ...): the
\* manifest as it is when the file is written, dom being processDomain's
\* locals at that point.
persist(r, dom) ==
  IF Len(dom.domainInfo.snapshots) > Len(r.dom.domainInfo.snapshots)
  THEN recordDomain(r, dom)
  ELSE r.infoFile

\* backup(...) up to the loop over the domains.
startRun(srv, info, lastTxId, force) ==
  IF lastTxId = info.lastTxId /\ ~force
  THEN [IdleRun EXCEPT !.pc = "done", !.srv = srv, !.lastTxId = lastTxId, !.force = force,
                       !.info = info, !.infoFile = info]
  ELSE [IdleRun EXCEPT !.pc = "domains", !.srv = srv, !.lastTxId = lastTxId,
                       !.force = force,
                       !.info = [info EXCEPT !.lastTxId = NoTxId, !.version = "0.6.2",
                                             !.snapshots = Append(@, [date |-> 2,
                                                                      domains |-> NoDomains])],
                       !.infoFile = info,
                       !.domains = backupDomains({})]

\* if (!canceled) { backupInfo.lastTxId = lastTx._id; writeFile(infoFile) }
finalStep(r) ==
  IF ~r.canceled
  THEN Only({[r EXCEPT !.pc = "done", !.info = done, !.infoFile = done]
               : done \in {[r.info EXCEPT !.lastTxId = r.lastTxId]}})
  ELSE [r EXCEPT !.pc = "done"]

\* for (const domain of domains) { if (canceled) break; processDomain up to
\* the first loadChunk; after the loop the end of the run.
nextDomain(r) ==
  IF r.canceled \/ r.domains = <<>>
  THEN finalStep(r)
  ELSE [r EXCEPT !.pc = "scan", !.domain = Head(r.domains), !.domains = Tail(r.domains),
                 !.started = @ + 1,
                 !.scan = newScan(loadDigest(r.info.snapshots, Head(r.domains), NoDate),
                                  NoChanges),
                 !.dom = NoRetrieve, !.chunks = <<>>]

\* One loadChunk call of loadChangesFromServer and what follows it. Each call
\* picks its outcome, so the calls are not counted.
scanStep(r, ok) ==
  IF ok
  THEN Only({IF chunk.finished
             THEN [r EXCEPT !.pc = "retrieve", !.scan = done, !.dom = newRetrieve(done),
                            !.chunks = done.needRetrieveChunks]
             ELSE [r EXCEPT !.scan = [done EXCEPT !.idx = @ + 1]]
               : chunk \in {loadChunk(Stream(r.srv, r.domain), r.scan.idx)},
                 done \in {[scanChunk(r.scan, loadChunk(Stream(r.srv, r.domain), r.scan.idx))
                              EXCEPT !.calls = 0]}})
  ELSE [r EXCEPT !.scan = [scanRetry(r.scan) EXCEPT !.calls = 0], !.errors = 1 - @]

\* The top of while (needRetrieveChunks.length > 0) up to loadDocs, and the
\* end of processDomain when no batch is left.
retrieveStep(r) ==
  IF r.chunks = <<>>
  THEN Only({[r EXCEPT !.pc = "domains", !.dom = final, !.info = recordDomain(r, final),
                       !.infoFile = persist(r, final)]
               : final \in {finishDomain(r.dom, r.scan.digest)}})
  ELSE IF r.canceled
       THEN [r EXCEPT !.pc = "domains"]
       ELSE [r EXCEPT !.pc = "loadDocs", !.needRetrieve = Head(r.chunks),
                      !.chunks = Tail(r.chunks)]

\* while (docs.length > 0) { if (canceled) return; ... }
packStepNoCheck(r, ok) ==
  IF ~ok
  THEN [r EXCEPT !.pc = "retrieve", !.chunks = Append(@, r.needRetrieve),
                 !.needRetrieve = <<>>]
  ELSE Only({IF FALSE
             THEN [r EXCEPT !.pc = "domains", !.dom = opened, !.needRetrieve = <<>>,
                            !.info = recordDomain(r, opened),
                            !.infoFile = persist(r, rolled)]
             ELSE Only({[r EXCEPT !.pc = "retrieve", !.dom = packed, !.needRetrieve = <<>>,
                                  !.info = recordDomain(r, packed),
                                  !.infoFile = persist(r, rolled),
                                  !.packed = @ + Len(loaded)]
                          : packed \in {packDocs(opened, loaded)}})
               : rolled \in {rollOver(r.dom)},
                 opened \in {openPack(rollOver(r.dom))},
                 loaded \in {loadDocs(r.srv, r.needRetrieve)}})

\* After loadDocs: a rejected call puts the batch back; otherwise the archive
\* file is rolled over or opened and the documents are packed, unless the
\* timer has fired.
packStep(r, ok) ==
  IF ~ok
  THEN [r EXCEPT !.pc = "retrieve", !.chunks = Append(@, r.needRetrieve),
                 !.needRetrieve = <<>>]
  ELSE Only({IF r.canceled /\ loaded # <<>>
             THEN [r EXCEPT !.pc = "domains", !.dom = opened, !.needRetrieve = <<>>,
                            !.info = recordDomain(r, opened),
                            !.infoFile = persist(r, rolled)]
             ELSE Only({[r EXCEPT !.pc = "retrieve", !.dom = packed, !.needRetrieve = <<>>,
                                  !.info = recordDomain(r, packed),
                                  !.infoFile = persist(r, rolled),
                                  !.packed = @ + Len(loaded)]
                          : packed \in {packDocs(opened, loaded)}})
               : rolled \in {rollOver(r.dom)},
                 opened \in {openPack(rollOver(r.dom))},
                 loaded \in {loadDocs(r.srv, r.needRetrieve)}})

\* The servers and the manifests a run starts from.
RunServers ==
  {SeededServer,
   [SeededServer EXCEPT ![MaxTaskDocs] = Body("h1")],
   [SeededServer EXCEPT ![1] = Body("h2"), ![2] = NoBody]}

RunManifests == {NoBackup, backupRun(NoBackup, SeededServer, 1, 1, {}, FALSE, 0).info}

RunStart ==
  /\ running.pc = "idle"
  /\ \E srv \in RunServers, info \in RunManifests, lastTxId \in 1..2, force \in BOOLEAN :
       running' = startRun(srv, info, lastTxId, force)
  /\ RunFrame

NextDomain ==
  /\ running.pc = "domains"
  /\ running' = nextDomain(running)
  /\ RunFrame

\* A rejected loadChunk after the first chunk makes the next pass report the
\* ids again: MaxClassified bounds the reports.
LoadChunk ==
  /\ running.pc = "scan"
  /\ \E ok \in BOOLEAN :
       /\ ok \/ running.scan.idx = 1 \/ Len(running.scan.classified) < MaxClassified
       /\ running' = scanStep(running, ok)
  /\ RunFrame

Retrieve ==
  /\ running.pc = "retrieve"
  /\ running' = retrieveStep(running)
  /\ RunFrame

LoadDocs ==
  /\ running.pc = "loadDocs"
  /\ \E ok \in BOOLEAN : running' = packStep(running, ok)
  /\ RunFrame

\* The timer of `timeout` fires: canceled = true.
Timeout ==
  /\ running.pc \notin {"idle", "done"}
  /\ ~running.canceled
  /\ running' = [running EXCEPT !.canceled = TRUE]
  /\ RunFrame

\* The run has ended; another one may start.
RunEnd ==
  /\ running.pc = "done"
  /\ running' = IdleRun
  /\ RunFrame

(***************************************************************************)
(* One restore run, step by step: the loop over the domains with its       *)
(* retries. A call of processDomain either goes through or throws.         *)
(***************************************************************************)

\* let retry = 5
RetryCount == 5

NoCounts == [domain \in {HierarchyDomains[i] : i \in 1..Len(HierarchyDomains)} |-> 0]
NoOutcomes == [domain \in {HierarchyDomains[i] : i \in 1..Len(HierarchyDomains)} |-> "none"]

\* pc: where the run is. c, retry, delay: the locals of the loop. attempts:
\* the calls of processDomain of a domain, failures: those that threw,
\* waits: the cool-downs taken, in units of a second, outcome: how the
\* domain ended.
IdleRestore ==
  [pc |-> "idle", srv |-> EmptyServer, snapshots |-> <<>>, merge |-> FALSE,
   domains |-> <<>>, c |-> "", retry |-> 0, delay |-> 0,
   attempts |-> NoCounts, failures |-> NoCounts, waits |-> NoLists, outcome |-> NoOutcomes]

\* restore(...) up to the loop over the domains (date = -1).
startRestore(info, srv, merge) ==
  [IdleRestore EXCEPT !.pc = "domain", !.srv = srv, !.snapshots = info.snapshots,
                      !.merge = merge, !.domains = HierarchyDomains]

\* for (const c of domains) { let retry = 5; let delay = 1
nextRestoreDomain(r) ==
  IF r.domains = <<>>
  THEN [r EXCEPT !.pc = "done"]
  ELSE [r EXCEPT !.pc = "try", !.c = Head(r.domains), !.domains = Tail(r.domains),
                 !.retry = RetryCount, !.delay = 1]

\* while (retry > 0) { retry--; try { await processDomain(c); break } catch
\* { if (retry !== 0) cool down } }
attemptStep(r, ok) ==
  IF r.retry > 0
  THEN IF ok
       THEN [r EXCEPT !.pc = "domain", !.retry = @ - 1,
                      !.srv = restoreDomain(r.snapshots, r.srv, r.c,
                                            r.snapshots[Len(r.snapshots)].date, r.merge).srv,
                      !.attempts[r.c] = @ + 1, !.outcome[r.c] = "done"]
       ELSE [r EXCEPT !.pc = IF r.retry - 1 # 0 THEN "wait" ELSE "try", !.retry = @ - 1,
                      !.attempts[r.c] = @ + 1, !.failures[r.c] = @ + 1]
  ELSE [r EXCEPT !.pc = "domain", !.outcome[r.c] = "failed"]

\* A cool-down that stays the same.
coolDownFlat(r) ==
  [r EXCEPT !.pc = "try", !.waits[r.c] = Append(@, r.delay)]

\* await new Promise((resolve) => setTimeout(resolve, delay * 1000)); delay++
coolDown(r) ==
  [r EXCEPT !.pc = "try", !.waits[r.c] = Append(@, r.delay), !.delay = @ + 1]

StartRestore ==
  /\ restoring.pc = "idle"
  /\ \E srv \in {EmptyServer, SeededServer}, merge \in BOOLEAN :
       restoring' = startRestore(LegacyBackups(SeededServer), srv, merge)
  /\ RetryFrame

NextRestoreDomain ==
  /\ restoring.pc = "domain"
  /\ restoring' = nextRestoreDomain(restoring)
  /\ RetryFrame

Attempt ==
  /\ restoring.pc = "try"
  /\ \E ok \in BOOLEAN : restoring' = attemptStep(restoring, ok)
  /\ RetryFrame

CoolDown ==
  /\ restoring.pc = "wait"
  /\ restoring' = coolDown(restoring)
  /\ RetryFrame

EndRestore ==
  /\ restoring.pc = "done"
  /\ restoring' = IdleRestore
  /\ RetryFrame

(***************************************************************************)
(* The field stage of the indexing pipeline: IndexedFieldStage.collect,    *)
(* step by step, on three DocIndexState: a parent, a document attached to  *)
(* it, and one more document of the class of the attached one.             *)
(***************************************************************************)

IndexIds == 1..3
ParentClass == "parent"
ChildClass == "child"

\* An attribute value is a text or a value with typeof 'object'; NoValue is
\* an attribute that DocIndexState.attributes does not hold.
NoValue == "none"
ObjectValue == "object"
IndexValues == {"text", ObjectValue}

\* pipeline.update(docId, mark, update): the watermark of the stage becomes
\* mark and the fields of update are merged into the attributes.
pipelineUpdate(states, docId, mark, patch) ==
  [states EXCEPT ![docId].stage = mark,
                 ![docId].value = IF patch # NoValue THEN patch ELSE @]

\* pipeline.markRemove(doc).
markRemove(states, docId) == [states EXCEPT ![docId].removed = TRUE]

\* The documents a pass hands to the stage: those whose watermark is not the
\* value of the stage.
ToIndex(states) == {id \in IndexIds : ~states[id].stage /\ ~states[id].removed}

\* for (const u of childs): the documents attached to docId, of a class of
\* `propagate`, are put back before the stage.
RECURSIVE resetChilds(_, _, _)
resetChilds(states, docId, from) ==
  IF from > 3 THEN states
  ELSE resetChilds(IF states[from].attachedTo = docId /\ states[from].objectClass = ChildClass
                   THEN pipelineUpdate(states, from, FALSE, NoValue)
                   ELSE states,
                   docId, from + 1)

\* The body of try for one document. fail names the call that throws:
\* "content" (getContent), "propagate" (after the update of the parent),
\* "update" (the update of the document itself), "no" for none.
tryDoc(ix, docId, fail) ==
  Only({Only({Only({IF fail = "content" THEN ix.states
                    ELSE IF fail = "propagate" THEN parent
                    ELSE IF fail = "update" THEN childs
                    ELSE pipelineUpdate(childs, docId, TRUE,
                                        IF changes > 0 /\ content # ObjectValue
                                        THEN content ELSE NoValue)
                      : childs \in {IF ix.states[docId].objectClass = ParentClass /\ ix.propagate
                                    THEN resetChilds(parent, docId, 1) ELSE parent}})
                : parent \in {IF ix.states[docId].attachedTo # 0 /\ changes > 0
                                 /\ ix.parentPropagate
                              THEN pipelineUpdate(ix.states, ix.states[docId].attachedTo,
                                                  FALSE, NoValue)
                              ELSE ix.states}})
          : content \in {ix.source[docId]},
            changes \in {IF ix.states[docId].value # ix.source[docId] THEN 1 ELSE 0}})

\* The markRemove loop leaving after its first document.
collectRemoveFirstOnly(ix) ==
  IF ix.removeQueue = <<>>
  THEN [ix EXCEPT !.pc = "done"]
  ELSE [ix EXCEPT !.pc = "done",
                  !.removeQueue = <<>>,
                  !.states = markRemove(ix.states, Head(ix.removeQueue)),
                  !.marked = @ \cup {Head(ix.removeQueue)}]

\* for (const d of toIndex) { if (!processed.has(d._id)) markRemove(d) }:
\* one document. The loop is not left when pipeline.cancelling is set.
collectRemove(ix) ==
  IF ix.removeQueue = <<>>
  THEN [ix EXCEPT !.pc = "done"]
  ELSE [ix EXCEPT !.pc = IF Tail(ix.removeQueue) = <<>> THEN "done" ELSE "remove",
                  !.removeQueue = Tail(@),
                  !.states = markRemove(ix.states, Head(ix.removeQueue)),
                  !.marked = @ \cup {Head(ix.removeQueue)}]

\* A document that throws is not taken as processed.
collectDocForgets(ix, fail) ==
  IF ix.queue = <<>>
  THEN IF ~ix.cancelling
       THEN collectRemove([ix EXCEPT !.removeQueue =
                                        SelectSeq(ix.toIndex,
                                                  LAMBDA d : d \notin ix.processed)])
       ELSE [ix EXCEPT !.pc = "done"]
  ELSE IF ix.cancelling
       THEN [ix EXCEPT !.pc = "done"]
       ELSE Only({[ix EXCEPT !.queue = Tail(ix.queue),
                             !.processed = IF fail = "no" THEN @ \cup {docId} ELSE @,
                             !.states = tryDoc(ix, docId, fail),
                             !.advanced = IF fail = "no" THEN @ \cup {docId} ELSE @,
                             !.threw = IF fail # "no" THEN @ \cup {docId} ELSE @]
                    : docId \in {Head(ix.queue)}})

\* One turn of for (const doc of docs), and what follows the loops:
\* if (!pipeline.cancelling) the first of the documents that were not found
\* is marked.
collectDoc(ix, fail) ==
  IF ix.queue = <<>>
  THEN IF ~ix.cancelling
       THEN collectRemove([ix EXCEPT !.removeQueue =
                                        SelectSeq(ix.toIndex,
                                                  LAMBDA d : d \notin ix.processed)])
       ELSE [ix EXCEPT !.pc = "done"]
  ELSE IF ix.cancelling
       THEN [ix EXCEPT !.pc = "done"]
       ELSE Only({[ix EXCEPT !.queue = Tail(ix.queue),
                             !.processed = @ \cup {docId},
                             !.states = tryDoc(ix, docId, fail),
                             !.advanced = IF fail = "no" THEN @ \cup {docId} ELSE @,
                             !.threw = IF fail # "no" THEN @ \cup {docId} ELSE @]
                    : docId \in {Head(ix.queue)}})

\* The ids of a set in rising or in falling order.
RECURSIVE InOrder(_, _, _)
InOrder(ids, rising, from) ==
  IF from > 3 THEN <<>>
  ELSE Only({(IF id \in ids THEN <<id>> ELSE <<>>) \o InOrder(ids, rising, from + 1)
               : id \in {IF rising THEN from ELSE 4 - from}})

\* byClass: the documents of toIndex by class, the classes in the order in
\* which toIndex names them; findAll leaves out those with no document.
ByClass(ix, list) ==
  IF list = <<>> THEN <<>>
  ELSE SelectSeq(list, LAMBDA d : ix.states[d].objectClass = ix.states[Head(list)].objectClass)
         \o SelectSeq(list, LAMBDA d : ix.states[d].objectClass # ix.states[Head(list)].objectClass)

\* collect(toIndex, pipeline, metrics) up to the first document.
collectStart(ix, rising) ==
  Only({[ix EXCEPT !.pc = "doc", !.toIndex = list,
                   !.queue = SelectSeq(ByClass(ix, list), LAMBDA d : ix.source[d] # NoValue),
                   !.processed = {}, !.removeQueue = <<>>, !.cancelling = FALSE,
                   !.advanced = {}, !.marked = {}, !.threw = {}]
          : list \in {InOrder(ToIndex(ix.states), rising, 1)}})

\* A DocIndexState that no stage has seen.
NewState(objectClass, attachedTo) ==
  [objectClass |-> objectClass, attachedTo |-> attachedTo, stage |-> FALSE,
   value |-> NoValue, removed |-> FALSE]

\* pc: where collect is. source: the attribute of the document of each state,
\* NoValue when the document is gone. advanced, marked, threw: the documents
\* whose watermark the pass advanced, that it marked, that threw.
IndexOf(source, parentPropagate, propagate) ==
  [pc |-> "idle", source |-> source,
   parentPropagate |-> parentPropagate, propagate |-> propagate,
   states |-> <<NewState(ParentClass, 0), NewState(ChildClass, 1), NewState(ChildClass, 0)>>,
   toIndex |-> <<>>, queue |-> <<>>, processed |-> {}, removeQueue |-> <<>>,
   cancelling |-> FALSE, advanced |-> {}, marked |-> {}, threw |-> {}]

IdleIndex == IndexOf(<<NoValue, NoValue, NoValue>>, FALSE, FALSE)

IndexInputs ==
  {IndexOf(<<v1, v2, v3>>, parentPropagate, propagate) :
     v1 \in IndexValues, v2 \in IndexValues \cup {NoValue}, v3 \in IndexValues \cup {NoValue},
     parentPropagate \in BOOLEAN, propagate \in BOOLEAN}

\* A pass of the pipeline starts when the stage has documents to process.
StartPass ==
  /\ indexing.pc = "idle"
  /\ ToIndex(indexing.states) # {}
  /\ \E rising \in BOOLEAN : indexing' = collectStart(indexing, rising)
  /\ IndexFrame

CollectDoc(fails) ==
  /\ indexing.pc = "doc"
  /\ \E fail \in fails : indexing' = collectDoc(indexing, fail)
  /\ IndexFrame

MarkRemove ==
  /\ indexing.pc = "remove"
  /\ indexing' = collectRemove(indexing)
  /\ IndexFrame

\* The pipeline is told to stop.
Cancel ==
  /\ indexing.pc \in {"doc", "remove"}
  /\ ~indexing.cancelling
  /\ indexing' = [indexing EXCEPT !.cancelling = TRUE]
  /\ IndexFrame

EndPass ==
  /\ indexing.pc = "done"
  /\ indexing' = [indexing EXCEPT !.pc = "idle", !.cancelling = FALSE]
  /\ IndexFrame

(***************************************************************************)
(* Specifications.                                                         *)
(***************************************************************************)
\* The scope serializer with no call in flight.
IdleScopes == [s \in Scopes |-> NoPromise]
IdlePc == [p \in Procs |-> "idle"]
IdleSeqs == [p \in Procs |-> <<>>]
IdleIdx == [p \in Procs |-> 0]

InitScope ==
  /\ scopes = IdleScopes
  /\ waiters = <<>>
  /\ mq = <<>>
  /\ spc = IdlePc
  /\ applyTxes = IdleSeqs
  /\ idx = IdleIdx
  /\ onEnds = IdleSeqs
  /\ window = {}
  /\ model = <<>>
  /\ hashes = <<>>
  /\ modelErr = FALSE
  /\ loadArg = NoCall
  /\ loadResp = NoCall
  /\ docs = NoRemoved
  /\ docs0 = NoRemoved
  /\ model0 = <<>>
  /\ hashes0 = <<>>
  /\ callTxes = <<>>
  /\ callEnd = "none"
  /\ failedAt = "none"
  /\ result = <<>>
  /\ callDerived = <<>>
  /\ txLogged = <<>>
  /\ ftTx = <<>>
  /\ passes = 0
  /\ diverged = FALSE
  /\ sent = 0
  /\ lastId = NoId
  /\ unit = "none"
  /\ unitIn = NoGiven
  /\ routeTxes = <<>>
  /\ route = NoRoute
  /\ verified = NoVerdict
  /\ routePass = 0
  /\ server = EmptyServer
  /\ backupInfo = NoBackup
  /\ lastTx = 1
  /\ clock = 1
  /\ job = NoJob
  /\ edits = 0
  /\ running = IdleRun
  /\ restoring = IdleRestore
  /\ indexing = IdleIndex

\* The constructor: setModel(model) on the model it is given.
InitModel ==
  /\ model \in SeqsUpTo(ModelTxs, MaxModel - 1)
  /\ hashes = setModel(model)
  /\ modelErr = FALSE
  /\ loadArg = NoCall
  /\ loadResp = NoCall
  /\ scopes = IdleScopes
  /\ waiters = <<>>
  /\ mq = <<>>
  /\ spc = IdlePc
  /\ applyTxes = IdleSeqs
  /\ idx = IdleIdx
  /\ onEnds = IdleSeqs
  /\ window = {}
  /\ docs = NoRemoved
  /\ docs0 = NoRemoved
  /\ model0 = model
  /\ hashes0 = hashes
  /\ callTxes = <<>>
  /\ callEnd = "none"
  /\ failedAt = "none"
  /\ result = <<>>
  /\ callDerived = <<>>
  /\ txLogged = <<>>
  /\ ftTx = <<>>
  /\ passes = 0
  /\ diverged = FALSE
  /\ sent = 0
  /\ lastId = NoId
  /\ unit = "none"
  /\ unitIn = NoGiven
  /\ routeTxes = <<>>
  /\ route = NoRoute
  /\ verified = NoVerdict
  /\ routePass = 0
  /\ server = EmptyServer
  /\ backupInfo = NoBackup
  /\ lastTx = 1
  /\ clock = 1
  /\ job = NoJob
  /\ edits = 0
  /\ running = IdleRun
  /\ restoring = IdleRestore
  /\ indexing = IdleIndex

NextScopeReturn ==
  \/ \E p \in Procs, batch \in Batches : Start(p, batch)
  \/ RunMicrotask
  \/ \E p \in Procs, passed \in BOOLEAN : EvalReturn(p, passed)
  \/ \E p \in Procs : ApplyReturn(p)

NextScope ==
  \/ \E p \in Procs, batch \in Batches : Start(p, batch)
  \/ RunMicrotask
  \/ \E p \in Procs, passed \in BOOLEAN : EvalReturn(p, passed)
  \/ \E p \in Procs : ApplyReturn(p)
  \/ \E p \in Procs : EvalThrow(p)
  \/ \E p \in Procs : ApplyThrow(p)

SpecScope == InitScope /\ [][NextScope]_vars

\* The adapter calls return and the event loop runs every queued microtask.
SpecScopeFair ==
  InitScope /\ [][NextScopeReturn]_vars /\ WF_vars(NextScopeReturn)

NextModel ==
  \/ \E mtx \in ModelTxs : AddModelTx(mtx)
  \/ \E hash \in KnownHashes \cup SeqRange(hashes) : LoadModel(hash)

SpecModel == InitModel /\ [][NextModel]_vars

\* The document store: no document stored, the model the constructor was
\* given holding one transaction, no call made yet.
Init ==
  /\ model = <<CfgTx>>
  /\ hashes = setModel(model)
  /\ modelErr = FALSE
  /\ loadArg = NoCall
  /\ loadResp = NoCall
  /\ scopes = IdleScopes
  /\ waiters = <<>>
  /\ mq = <<>>
  /\ spc = IdlePc
  /\ applyTxes = IdleSeqs
  /\ idx = IdleIdx
  /\ onEnds = IdleSeqs
  /\ window = {}
  /\ docs = NoRemoved
  /\ docs0 = NoRemoved
  /\ model0 = model
  /\ hashes0 = hashes
  /\ callTxes = <<>>
  /\ callEnd = "none"
  /\ failedAt = "none"
  /\ result = <<>>
  /\ callDerived = <<>>
  /\ txLogged = <<>>
  /\ ftTx = <<>>
  /\ passes = 0
  /\ diverged = FALSE
  /\ sent = 0
  /\ lastId = NoId
  /\ unit = "none"
  /\ unitIn = NoGiven
  /\ routeTxes = <<>>
  /\ route = NoRoute
  /\ verified = NoVerdict
  /\ routePass = 0
  /\ server = EmptyServer
  /\ backupInfo = NoBackup
  /\ lastTx = 1
  /\ clock = 1
  /\ job = NoJob
  /\ edits = 0
  /\ running = IdleRun
  /\ restoring = IdleRestore
  /\ indexing = IdleIndex

Next ==
  \/ \E txes \in BatchesFrom(docs, lastId, Min(MaxBatch, MaxSent - sent)) : Submit(txes)
  \/ Deliver

Spec == Init /\ [][Next]_vars

InitParts ==
  /\ scopes = IdleScopes
  /\ waiters = <<>>
  /\ mq = <<>>
  /\ spc = IdlePc
  /\ applyTxes = IdleSeqs
  /\ idx = IdleIdx
  /\ onEnds = IdleSeqs
  /\ window = {}
  /\ model = <<>>
  /\ hashes = <<>>
  /\ modelErr = FALSE
  /\ loadArg = NoCall
  /\ loadResp = NoCall
  /\ docs = NoRemoved
  /\ docs0 = NoRemoved
  /\ model0 = <<>>
  /\ hashes0 = <<>>
  /\ callTxes = <<>>
  /\ callEnd = "none"
  /\ failedAt = "none"
  /\ result = <<>>
  /\ callDerived = <<>>
  /\ txLogged = <<>>
  /\ ftTx = <<>>
  /\ passes = 0
  /\ diverged = FALSE
  /\ sent = 0
  /\ lastId = NoId
  /\ unit = "none"
  /\ unitIn = NoGiven
  /\ routeTxes = <<>>
  /\ route = NoRoute
  /\ verified = NoVerdict
  /\ routePass = 0
  /\ server = EmptyServer
  /\ backupInfo = NoBackup
  /\ lastTx = 1
  /\ clock = 1
  /\ job = NoJob
  /\ edits = 0
  /\ running = IdleRun
  /\ restoring = IdleRestore
  /\ indexing = IdleIndex

NextParts ==
  \/ Verify
  \/ RouteClient
  \/ RouteDerived
  \/ PartsDone

SpecParts == InitParts /\ [][NextParts]_vars

\* A workspace that is new or holds documents, with no backup yet or with one
\* snapshot of the version before 0.6.2.
InitBackup ==
  /\ scopes = IdleScopes
  /\ waiters = <<>>
  /\ mq = <<>>
  /\ spc = IdlePc
  /\ applyTxes = IdleSeqs
  /\ idx = IdleIdx
  /\ onEnds = IdleSeqs
  /\ window = {}
  /\ model = <<>>
  /\ hashes = <<>>
  /\ modelErr = FALSE
  /\ loadArg = NoCall
  /\ loadResp = NoCall
  /\ docs = NoRemoved
  /\ docs0 = NoRemoved
  /\ model0 = <<>>
  /\ hashes0 = <<>>
  /\ callTxes = <<>>
  /\ callEnd = "none"
  /\ failedAt = "none"
  /\ result = <<>>
  /\ callDerived = <<>>
  /\ txLogged = <<>>
  /\ ftTx = <<>>
  /\ passes = 0
  /\ diverged = FALSE
  /\ sent = 0
  /\ lastId = NoId
  /\ unit = "none"
  /\ unitIn = NoGiven
  /\ routeTxes = <<>>
  /\ route = NoRoute
  /\ verified = NoVerdict
  /\ routePass = 0
  /\ server \in {EmptyServer, SeededServer}
  /\ backupInfo \in {NoBackup, LegacyBackup(server)}
                     \cup (IF server = SeededServer THEN {LegacyBackups(server)} ELSE {})
  /\ lastTx = 1
  /\ clock = 2
  /\ job = NoJob
  /\ edits = 0
  /\ running = IdleRun
  /\ restoring = IdleRestore
  /\ indexing = IdleIndex

NextBackup ==
  \/ ServerTx
  \/ Backup
  \/ Restore
  \/ Compact

SpecBackup == InitBackup /\ [][NextBackup]_vars

\* One backup run at a time, with a timer and with calls to the server that
\* may be rejected.
InitRun ==
  /\ scopes = IdleScopes
  /\ waiters = <<>>
  /\ mq = <<>>
  /\ spc = IdlePc
  /\ applyTxes = IdleSeqs
  /\ idx = IdleIdx
  /\ onEnds = IdleSeqs
  /\ window = {}
  /\ model = <<>>
  /\ hashes = <<>>
  /\ modelErr = FALSE
  /\ loadArg = NoCall
  /\ loadResp = NoCall
  /\ docs = NoRemoved
  /\ docs0 = NoRemoved
  /\ model0 = <<>>
  /\ hashes0 = <<>>
  /\ callTxes = <<>>
  /\ callEnd = "none"
  /\ failedAt = "none"
  /\ result = <<>>
  /\ callDerived = <<>>
  /\ txLogged = <<>>
  /\ ftTx = <<>>
  /\ passes = 0
  /\ diverged = FALSE
  /\ sent = 0
  /\ lastId = NoId
  /\ unit = "none"
  /\ unitIn = NoGiven
  /\ routeTxes = <<>>
  /\ route = NoRoute
  /\ verified = NoVerdict
  /\ routePass = 0
  /\ server = EmptyServer
  /\ backupInfo = NoBackup
  /\ lastTx = 1
  /\ clock = 1
  /\ job = NoJob
  /\ edits = 0
  /\ running = IdleRun
  /\ restoring = IdleRestore
  /\ indexing = IdleIndex

NextRun ==
  \/ RunStart
  \/ NextDomain
  \/ LoadChunk
  \/ Retrieve
  \/ LoadDocs
  \/ Timeout
  \/ RunEnd

SpecRun == InitRun /\ [][NextRun]_vars

\* The run goes on as long as it has a step to take: every await of the run
\* settles.
SpecRunFair == SpecRun /\ WF_vars(NextRun)

\* One restore run at a time; a call of processDomain may throw.
InitRetry ==
  /\ scopes = IdleScopes
  /\ waiters = <<>>
  /\ mq = <<>>
  /\ spc = IdlePc
  /\ applyTxes = IdleSeqs
  /\ idx = IdleIdx
  /\ onEnds = IdleSeqs
  /\ window = {}
  /\ model = <<>>
  /\ hashes = <<>>
  /\ modelErr = FALSE
  /\ loadArg = NoCall
  /\ loadResp = NoCall
  /\ docs = NoRemoved
  /\ docs0 = NoRemoved
  /\ model0 = <<>>
  /\ hashes0 = <<>>
  /\ callTxes = <<>>
  /\ callEnd = "none"
  /\ failedAt = "none"
  /\ result = <<>>
  /\ callDerived = <<>>
  /\ txLogged = <<>>
  /\ ftTx = <<>>
  /\ passes = 0
  /\ diverged = FALSE
  /\ sent = 0
  /\ lastId = NoId
  /\ unit = "none"
  /\ unitIn = NoGiven
  /\ routeTxes = <<>>
  /\ route = NoRoute
  /\ verified = NoVerdict
  /\ routePass = 0
  /\ server = EmptyServer
  /\ backupInfo = NoBackup
  /\ lastTx = 1
  /\ clock = 1
  /\ job = NoJob
  /\ edits = 0
  /\ running = IdleRun
  /\ restoring = IdleRestore
  /\ indexing = IdleIndex

NextRetry ==
  \/ StartRestore
  \/ NextRestoreDomain
  \/ Attempt
  \/ CoolDown
  \/ EndRestore

SpecRetry == InitRetry /\ [][NextRetry]_vars

\* The passes of the field stage over a fixed set of documents; a document
\* may throw and the pipeline may be cancelled.
InitIndex ==
  /\ scopes = IdleScopes
  /\ waiters = <<>>
  /\ mq = <<>>
  /\ spc = IdlePc
  /\ applyTxes = IdleSeqs
  /\ idx = IdleIdx
  /\ onEnds = IdleSeqs
  /\ window = {}
  /\ model = <<>>
  /\ hashes = <<>>
  /\ modelErr = FALSE
  /\ loadArg = NoCall
  /\ loadResp = NoCall
  /\ docs = NoRemoved
  /\ docs0 = NoRemoved
  /\ model0 = <<>>
  /\ hashes0 = <<>>
  /\ callTxes = <<>>
  /\ callEnd = "none"
  /\ failedAt = "none"
  /\ result = <<>>
  /\ callDerived = <<>>
  /\ txLogged = <<>>
  /\ ftTx = <<>>
  /\ passes = 0
  /\ diverged = FALSE
  /\ sent = 0
  /\ lastId = NoId
  /\ unit = "none"
  /\ unitIn = NoGiven
  /\ routeTxes = <<>>
  /\ route = NoRoute
  /\ verified = NoVerdict
  /\ routePass = 0
  /\ server = EmptyServer
  /\ backupInfo = NoBackup
  /\ lastTx = 1
  /\ clock = 1
  /\ job = NoJob
  /\ edits = 0
  /\ running = IdleRun
  /\ restoring = IdleRestore
  /\ indexing \in IndexInputs

NextIndex ==
  \/ StartPass
  \/ CollectDoc({"no", "content", "propagate", "update"})
  \/ MarkRemove
  \/ Cancel
  \/ EndPass

SpecIndex == InitIndex /\ [][NextIndex]_vars

\* The passes with no document that throws and no cancellation; the pipeline
\* runs a pass whenever a stage has a document to process.
NextIndexQuiet ==
  \/ StartPass
  \/ CollectDoc({"no"})
  \/ MarkRemove
  \/ EndPass

SpecIndexFair == InitIndex /\ [][NextIndexQuiet]_vars /\ WF_vars(NextIndexQuiet)

(***************************************************************************)
(* Claims about the scope serializer.                                      *)
(***************************************************************************)

\* C1: two TxApplyIf transactions that name the same scope never have
\* overlapping windows (from the start of the predicate evaluation to the
\* call of onEnd), for any number of concurrent processTxes calls.
C1_NoOverlappingWindows ==
  \A a \in window, b \in window :
    a # b => PromiseScope(a) # PromiseScope(b)

\* C5: every processTxes call that has been started eventually returns, with
\* the scopes it took released, provided the adapter calls return.
C5_EveryCallReturns ==
  \A p \in Procs :
    (spc[p] # "idle") ~>
      (spc[p] = "done" /\ \A s \in Scopes : scopes[s] = NoPromise \/ scopes[s][1] # p)

\* C6: a scope taken by a TxApplyIf stays held by it until the processTxes
\* call that took it ends, and is released when that call ends, whether the
\* call returned or threw.
C6_HeldUntilEndThenReleased ==
  /\ \A a \in window : scopes[PromiseScope(a)] = a
  /\ \A p \in Procs :
       spc[p] \in {"done", "thrown"} =>
         \A s \in Scopes : scopes[s] = NoPromise \/ scopes[s][1] # p

(***************************************************************************)
(* Claims about the model ledger.                                          *)
(***************************************************************************)

\* C7: after any sequence of model transactions, from any initial model, the
\* empty one included, the hash list has one entry per model transaction and
\* entry i is SHA1(entry i-1 || serialize(tx i)), '' standing for entry -1.
C7_ChainMatchesModel ==
  /\ Len(hashes) = Len(model)
  /\ hashes = setModel(model)

\* C8: loadModel with a hash that is not in the chain returns full = true, all
\* model transactions and the last hash of the chain; with the hash at
\* position p it returns full = false and the transactions after position p,
\* so that the first p ones followed by the returned ones are the model.
C8_LoadModelSuffix ==
  loadArg # NoCall =>
    IF \A i \in 1..Len(hashes) : hashes[i] # loadArg
    THEN /\ loadResp.full = TRUE
         /\ loadResp.transactions = model
         /\ loadResp.hash = lastHash(hashes)
    ELSE \E p \in 1..Len(hashes) :
           /\ hashes[p] = loadArg
           /\ loadResp.full = FALSE
           /\ Len(loadResp.transactions) = Len(model) - p
           /\ SubSeq(model, 1, p) \o loadResp.transactions = model

\* C8 witness: a known hash in the middle of the chain was presented and a
\* proper, non-empty suffix came back.
C8_Witness ==
  /\ loadArg # NoCall
  /\ \E p \in 1..Len(hashes) : hashes[p] = loadArg /\ p < Len(hashes)
  /\ loadResp.full = FALSE
  /\ loadResp.transactions # <<>>
  /\ loadResp.transactions # model

(***************************************************************************)
(* Claims about processTxes on the document store.                         *)
(***************************************************************************)
CollectionNames == {"c1", "c2"}

\* The live documents attached to parent in the collection c.
AttachedIn(d, parent, c) ==
  {x \in Ids : Live(d, x) /\ d[x].attachedTo = parent /\ d[x].collection = c}

\* C2: after any sequence of batches that create, remove or re-parent
\* attached documents through TxCollectionCUD, for every live parent P and
\* every collection name c the attribute c of P equals the number of live
\* documents with attachedTo = P and collection = c.
C2_CountersMatchChildren ==
  \A parent \in Ids : \A c \in CollectionNames :
    Live(docs, parent) => docs[parent].cnt[c] = Cardinality(AttachedIn(docs, parent, c))

\* The transactions the last call processed: the plain ones of the batch and
\* the ones embedded in a TxApplyIf that passed.
Processed == applyLoop(docs0, [acc |-> fillTxes(callTxes, EmptyAcc), result |-> <<>>,
                               derived |-> <<>>], 1).acc.process

\* The document x is attached to: as stored now, or as stored before the
\* call when the call removed x.
AttachedToOf(x) ==
  IF Live(docs, x) THEN docs[x].attachedTo
  ELSE IF Live(docs0, x) THEN docs0[x].attachedTo
  ELSE NoId

RECURSIVE AttachedUnder(_, _, _)
AttachedUnder(x, top, n) ==
  /\ n > 0
  /\ AttachedToOf(x) # NoId
  /\ \/ AttachedToOf(x) = top
     \/ AttachedUnder(AttachedToOf(x), top, n - 1)

\* C3: after processTxes has applied a TxRemoveDoc for a document D, no
\* document remains queryable that is reachable from D, transitively, through
\* attachedTo links, or that the related-document collector of D's class
\* returns for D.
C3_NoOrphanAfterRemove ==
  callEnd = "returned" =>
    \A i \in 1..Len(Processed) :
      LET rtx == extractTx(Processed[i])
      IN (rtx.cls = "TxRemoveDoc" /\ ~Live(docs, rtx.objectId)) =>
           /\ \A x \in Ids : Live(docs, x) => ~AttachedUnder(x, rtx.objectId, MaxDocs)
           /\ (Live(docs0, rtx.objectId) /\ hasDDParticipant(docs0[rtx.objectId].cls)) =>
                \A k \in 1..Len(collectDocs(docs0, rtx.objectId)) :
                  ~Live(docs, collectDocs(docs0, rtx.objectId)[k])

\* The removal graph of a store: x -> y when removing x removes y (y is
\* attached to x, or the collector of x returns y).
RemovalEdge(d, x, y) ==
  /\ Live(d, x) /\ Live(d, y)
  /\ \/ d[y].attachedTo = x
     \/ hasDDParticipant(d[x].cls) /\ \E k \in 1..Len(collectDocs(d, x)) : collectDocs(d, x)[k] = y

RECURSIVE RemovalPath(_, _, _, _)
RemovalPath(d, x, y, n) ==
  /\ n > 0
  /\ \/ RemovalEdge(d, x, y)
     \/ \E z \in Ids : RemovalEdge(d, x, z) /\ RemovalPath(d, z, y, n - 1)

NoRemovalCycle(d) == \A x \in Ids : ~RemovalPath(d, x, x, MaxDocs)

C9_BatchAtomic ==
  callEnd = "thrown" =>
    /\ model = model0
    /\ hashes = hashes0
    /\ txLogged = <<>>
    /\ docs = docs0

\* C10: the i-th entry of the result list processTxes returns is the result
\* of the i-th transaction of the batch, and tx() returns the result of the
\* transaction it was given, also for batches that mix TxApplyIf with plain
\* transactions.
C10_ResultPerTx ==
  callEnd = "returned" =>
    /\ Len(result) = Len(callTxes)
    /\ \A i \in 1..Len(callTxes) : i <= Len(result) => result[i].for = extractTx(callTxes[i])
    /\ Len(callTxes) = 1 =>
         tx(docs0, model0, hashes0, callTxes[1]).result.for = extractTx(callTxes[1])


(***************************************************************************)
(* Claims on routeTx (SpecParts).                                          *)
(***************************************************************************)
RouteEnded == unit \in {"client", "derived"}
RouteReturned == RouteEnded /\ ~route.thrown

IsCUD(t) == isDerivedTxCUD(t.cls)
Extracted(txes) == [i \in 1..Len(txes) |-> extractTx(txes[i])]
RunsOf(calls) == Flatten([i \in 1..Len(calls) |-> calls[i].txes])

\* C11: every adapter call of routeTx holds transactions of one domain, two
\* consecutive calls are for different domains, and when routeTx returns the
\* calls, one after the other, are the transactions it was given (each as
\* TxProcessor.extractTx gives it), in order, without the unsupported ones.
C11_MaximalRuns ==
  RouteEnded =>
    /\ \A i \in 1..Len(route.calls) :
         /\ route.calls[i].txes # <<>>
         /\ \A k \in 1..Len(route.calls[i].txes) :
              getDomain(route.calls[i].txes[k].objectClass) = route.calls[i].domain
    /\ \A i \in 1..(Len(route.calls) - 1) : route.calls[i].domain # route.calls[i + 1].domain
    /\ ~route.thrown => RunsOf(route.calls) = SelectSeq(Extracted(routeTxes), IsCUD)

\* Two transactions of one domain in one call, then a call for another domain.
C11_Witness ==
  /\ unit = "client"
  /\ ~route.thrown
  /\ Len(route.calls) = 2
  /\ Len(route.calls[1].txes) = 2


\* The routeTx call on the given transactions without those that are no TxCUD.
RouteOfSupported ==
  routeLoop(RouteState(unitIn.docs, unitIn.removed, route.rejects), <<>>, "",
            SelectSeq(routeTxes, LAMBDA t : IsCUD(extractTx(t))))

EventsOf(events, evs) == SelectSeq(events, LAMBDA e : e.ev \in evs)

\* C17: a transaction that is no TxCUD is skipped by routeTx: it is in no
\* adapter call and in no live-query notification, routeTx throws only when
\* an adapter rejects, and the stored documents, removedDocs, the results,
\* the adapter calls and the notifications are those of the call without it.
C17_UnsupportedSkipped ==
  (RouteEnded /\ \E i \in 1..Len(routeTxes) : ~IsCUD(extractTx(routeTxes[i]))) =>
    /\ \A i \in 1..Len(route.events) :
         route.events[i].ev \in {"tx", "notify"} =>
           \A k \in 1..Len(route.events[i].txes) : IsCUD(route.events[i].txes[k])
    /\ route.thrown => route.rejects # 0
    /\ \E r \in {RouteOfSupported} :
         /\ route.docs = r.docs
         /\ route.removed = r.removed
         /\ route.result = r.result
         /\ route.calls = r.calls
         /\ route.thrown = r.thrown
         /\ EventsOf(route.events, {"load", "tx", "notify"}) = r.events

\* A workspace event between two transactions of one domain: one adapter call
\* with both.
C17_Witness ==
  /\ unit = "client"
  /\ ~route.thrown
  /\ Len(routeTxes) = 3
  /\ routeTxes[2].cls = "TxWorkspaceEvent"
  /\ Len(route.calls) = 1
  /\ Len(route.calls[1].txes) = 2
  /\ route.docs # unitIn.docs

\* The transactions of the notifications and of the adapter calls that
\* returned, in the order of the events.
Notified(events) == Flatten([i \in 1..Len(EventsOf(events, {"notify"})) |->
                               EventsOf(events, {"notify"})[i].txes])
Applied(rt) ==
  RunsOf(IF rt.thrown THEN SubSeq(rt.calls, 1, Len(rt.calls) - 1) ELSE rt.calls)

RECURSIVE BodiesRemoved(_, _, _)
BodiesRemoved(d, txes, acc) ==
  IF txes = <<>> THEN acc
  ELSE BodiesRemoved(adapterApply(d, Head(txes)), Tail(txes),
                     IF Head(txes).cls = "TxRemoveDoc" /\ Live(d, Head(txes).objectId)
                     THEN [acc EXCEPT ![Head(txes).objectId] = d[Head(txes).objectId]]
                     ELSE acc)

\* C15: routeTx loads the documents a run removes before it calls the adapter
\* for the run, and when it returns removedMap maps every document the
\* transactions removed to the body the document had before its removal.
C15_RemovedMapComplete ==
  RouteReturned =>
    /\ \A i \in 1..Len(route.events) :
         (route.events[i].ev = "tx" /\ toDelete(route.events[i].txes) # {}) =>
           /\ i > 1
           /\ route.events[i - 1].ev = "load"
           /\ route.events[i - 1].ids = toDelete(route.events[i].txes)
    /\ \A id \in Ids :
         BodiesRemoved(unitIn.docs, RunsOf(route.calls), NoRemoved)[id] # NoDoc =>
           route.removed[id] = BodiesRemoved(unitIn.docs, RunsOf(route.calls), NoRemoved)[id]

NonDecreasing(txes) ==
  \A i \in 1..Len(txes) : \A j \in i..Len(txes) : txes[i].modifiedOn <= txes[j].modifiedOn

\* C12: the transactions passed to routeTx, the client batch or a pass of
\* derived transactions, are in non-decreasing order of modifiedOn, those of
\* equal modifiedOn in the order in which they were given.
C12_RoutedInOrder ==
  RouteEnded =>
    /\ NonDecreasing(routeTxes)
    /\ \A on \in {unitIn.txes[i].modifiedOn : i \in 1..Len(unitIn.txes)} :
         SelectSeq(routeTxes, LAMBDA t : t.modifiedOn = on)
           = SelectSeq(unitIn.txes, LAMBDA t : t.modifiedOn = on)


(***************************************************************************)
(* Claims on verifyApplyIf (SpecParts).                                    *)
(***************************************************************************)
\* The store holds a document of the class and id the query asks for.
Found(d, q) == \E id \in Ids : id = q.id /\ Live(d, id) /\ d[id].cls = q.cls

\* The predicates of a TxApplyIf, match first, and those that fail on d.
Predicates(applyIf) == applyIf.match \o applyIf.notMatch
Failing(d, applyIf) ==
  {i \in 1..Len(Predicates(applyIf)) :
     IF i <= Len(applyIf.match) THEN ~Found(d, Predicates(applyIf)[i])
     ELSE Found(d, Predicates(applyIf)[i])}

\* C14: verifyApplyIf returns passed = true exactly when every match query
\* finds a document and no notMatch query does, on the stored documents; the
\* queries it issues are the predicates in order, match first, up to the first
\* one that fails.
C14_VerdictAndShortCircuit ==
  unit = "verify" =>
    /\ verified.passed <=>
         /\ \A i \in 1..Len(unitIn.txes[1].match) : Found(unitIn.docs, unitIn.txes[1].match[i])
         /\ \A i \in 1..Len(unitIn.txes[1].notMatch) : ~Found(unitIn.docs, unitIn.txes[1].notMatch[i])
    /\ verified.queries =
         SubSeq(Predicates(unitIn.txes[1]), 1,
                IF Failing(unitIn.docs, unitIn.txes[1]) = {}
                THEN Len(Predicates(unitIn.txes[1]))
                ELSE CHOOSE i \in Failing(unitIn.docs, unitIn.txes[1]) :
                       \A j \in Failing(unitIn.docs, unitIn.txes[1]) : i <= j)

\* The second of two match queries finds nothing: no notMatch query is issued.
C14_Witness ==
  /\ unit = "verify"
  /\ ~verified.passed
  /\ Len(unitIn.txes[1].match) = 2
  /\ Len(unitIn.txes[1].notMatch) = 2
  /\ Len(verified.queries) = 2
  /\ Found(unitIn.docs, unitIn.txes[1].match[1])


(***************************************************************************)
(* Claims on the TxApplyIf of a batch (Spec).                              *)
(***************************************************************************)
\* The TxApplyIf of the last call whose predicates do not hold on the store
\* the call started on.
FailedApplyIfs ==
  {i \in 1..Len(callTxes) :
     callTxes[i].cls = "TxApplyIf" /\ ~verifyApplyIf(docs0, callTxes[i]).passed}

\* The last call without its failed TxApplyIf, each adapter behaving alike.
CallWithoutFailed ==
  processTxes(docs0, model0, hashes0,
              SelectSeq(callTxes, LAMBDA t : t.cls # "TxApplyIf" \/ verifyApplyIf(docs0, t).passed),
              IF failedAt \in FailSteps THEN failedAt ELSE "none")

\* C13: a TxApplyIf whose predicates do not hold gets the result
\* {derived: [], success: false} and makes the call neither throw nor write:
\* the call ends as it does without the TxApplyIf, with the same transaction
\* log, model ledger, stored documents and derived transactions, so that none
\* of the embedded transactions is applied and every other transaction is.
C13_FailedApplyIfSkipped ==
  (callEnd # "none" /\ FailedApplyIfs # {}) =>
    \E r \in {CallWithoutFailed} :
      /\ callEnd = r.outcome
      /\ txLogged = r.txLogged
      /\ model = r.model
      /\ hashes = r.hashes
      /\ docs = r.docs
      /\ callDerived = r.derived
      /\ ftTx = r.ftTx
      /\ callEnd = "returned" =>
           result = [i \in 1..Cardinality(FailedApplyIfs) |->
                       ApplyResult(FALSE, callTxes[CHOOSE k \in FailedApplyIfs : TRUE])]
                      \o r.result

\* A create is applied, the TxApplyIf after it fails and its embedded
\* transaction is not applied.
C13_Witness ==
  /\ callEnd = "returned"
  /\ FailedApplyIfs # {}
  /\ \E i \in FailedApplyIfs : callTxes[i].txes # <<>>
  /\ Len(callTxes) >= 2
  /\ docs # docs0
  /\ \E k \in 1..Len(result) : ~result[k].success

(***************************************************************************)
(* Claims about backup and restore (SpecBackup).                           *)
(***************************************************************************)
\* An id -> hash map as a function of the id, Undefined where it has no entry.
HashOf(map) == [id \in AllDocIds |-> MapGet(map, id)]

\* The hash the records give id under field (added or updated): that of the
\* last record that names it.
Naming(records, field, id) == {i \in 1..Len(records) : MapHas(records[i][field], id)}
LastHash(records, field, id) ==
  MapGet(records[CHOOSE i \in Naming(records, field, id) :
                   \A j \in Naming(records, field, id) : j <= i][field], id)
RemovedBy(records) == UNION {{records[i].removed[j] : j \in 1..Len(records[i].removed)}
                               : i \in 1..Len(records)}

\* The added, then the updated, then the removed records applied to a map.
ApplyRecords(before, records) ==
  [id \in AllDocIds |->
     IF id \in RemovedBy(records) THEN Undefined
     ELSE IF Naming(records, "updated", id) # {} THEN LastHash(records, "updated", id)
     ELSE IF Naming(records, "added", id) # {} THEN LastHash(records, "added", id)
     ELSE before[id]]

\* C19: for the snapshots of the manifest, the digest of the first k
\* snapshots is the digest of the first k - 1 with the added, then the
\* updated, then the removed records of snapshot k applied, in every domain;
\* a target date stops the load at the snapshot of that date.
C19_DigestIsIncremental ==
  \A domain \in DOMAIN NoDomains :
    \A k \in 1..Len(backupInfo.snapshots) :
      /\ HashOf(loadDigest(SubSeq(backupInfo.snapshots, 1, k), domain, NoDate))
           = ApplyRecords(HashOf(loadDigest(SubSeq(backupInfo.snapshots, 1, k - 1), domain, NoDate)),
                          backupInfo.snapshots[k].domains[domain].records)
      /\ loadDigest(backupInfo.snapshots, domain, backupInfo.snapshots[k].date)
           = loadDigest(SubSeq(backupInfo.snapshots, 1, k), domain, NoDate)

\* A second snapshot that removes one document and updates another.
C19_Witness ==
  /\ Len(backupInfo.snapshots) >= 2
  /\ \E i \in 1..Len(backupInfo.snapshots[2].domains[DomainTask].records) :
       /\ backupInfo.snapshots[2].domains[DomainTask].records[i].removed # <<>>
       /\ backupInfo.snapshots[2].domains[DomainTask].records[i].updated # <<>>
  /\ loadDigest(backupInfo.snapshots, DomainTask, NoDate) # <<>>

\* What the last backup run made of the ids the server reported for domain,
\* the digest the run started on, and the ids the server reported.
ReportedIds(domain) == {Stream(server, domain)[i].id : i \in 1..Len(Stream(server, domain))}
KindOf(known, id) ==
  IF ~MapHas(known, id) THEN "added"
  ELSE IF MapGet(known, id) # server[id].hash THEN "updated"
  ELSE "unchanged"
ClassifiedAs(domain, id) ==
  {i \in 1..Len(job.classified[domain]) : job.classified[domain][i][1] = id}

\* C20: a backup run classifies every id the server reports exactly once, as
\* added when the digest has no entry for it, updated when the digest hash
\* differs from the live hash, unchanged when they are equal, and the digest
\* ids the server did not report are the removed set.
C20_ClassifiedOnce ==
  (job.op = "backup" /\ ~job.skipped) =>
    \A domain \in StoredDomains \ job.skipDomains :
      /\ \A id \in ReportedIds(domain) :
           /\ Cardinality(ClassifiedAs(domain, id)) = 1
           /\ \A i \in ClassifiedAs(domain, id) :
                job.classified[domain][i][2] = KindOf(job.digest[domain], id)
      /\ \A i \in 1..Len(job.classified[domain]) :
           job.classified[domain][i][1] \in ReportedIds(domain)
      /\ {job.removed[domain][i] : i \in 1..Len(job.removed[domain])}
           = {job.digest[domain][i][1] : i \in 1..Len(job.digest[domain])} \ ReportedIds(domain)
      /\ Len(job.removed[domain]) = Cardinality(
           {job.digest[domain][i][1] : i \in 1..Len(job.digest[domain])} \ ReportedIds(domain))

\* C18: a restore to the date of the backup run just made leaves every
\* document with the hash it had and every other id absent, and its remove
\* set is empty in every domain.
C18_RoundTrip ==
  (job.op = "restore" /\ job.afterBackup) =>
    /\ \A id \in AllDocIds : server[id].hash = job.before[id].hash
    /\ \A domain \in DOMAIN NoLists : job.docsToRemove[domain] = <<>>

\* The snapshots a restore to job.date reads, and the digest of domain as
\* of that date.
RestoredSnapshots ==
  IF job.date = NoDate THEN backupInfo.snapshots
  ELSE SubSeq(backupInfo.snapshots, 1, findIndex(backupInfo.snapshots, job.date))
TargetHash(domain) == HashOf(loadDigest(RestoredSnapshots, domain, NoDate))

\* The snapshots whose archive of domain holds an entry for id.
Archived(domain, id) ==
  {k \in 1..Len(RestoredSnapshots) :
     \E f \in 1..Len(RestoredSnapshots[k].domains[domain].storage) :
       \E n \in 1..Len(RestoredSnapshots[k].domains[domain].storage[f]) :
         RestoredSnapshots[k].domains[domain].storage[f][n].id = id}
UploadsOf(domain, id) ==
  {i \in 1..Len(job.uploads[domain]) : job.uploads[domain][i].id = id}

\* C21: in every domain a restore run uploads the documents whose digest
\* entry as of the target date is missing on the server or differs there,
\* each once and from the newest snapshot whose archive holds it, and cleans
\* the server ids the digest does not hold, or nothing under merge.
C21_RestoreUploadsAndCleans ==
  job.op = "restore" =>
    \A domain \in DOMAIN NoLists :
      /\ \A id \in AllDocIds :
           Cardinality(UploadsOf(domain, id)) =
             IF /\ id \in DocIds(domain)
                /\ TargetHash(domain)[id] # Undefined
                /\ job.before[id].hash # TargetHash(domain)[id]
             THEN 1 ELSE 0
      /\ \A i \in 1..Len(job.uploads[domain]) :
           /\ Archived(domain, job.uploads[domain][i].id) # {}
           /\ \A k \in Archived(domain, job.uploads[domain][i].id) :
                RestoredSnapshots[k].date <= job.uploads[domain][i].from
           /\ \E k \in Archived(domain, job.uploads[domain][i].id) :
                RestoredSnapshots[k].date = job.uploads[domain][i].from
      /\ {job.cleaned[domain][i] : i \in 1..Len(job.cleaned[domain])} =
           IF job.merge THEN {}
           ELSE {id \in DocIds(domain) :
                   job.before[id] # NoBody /\ TargetHash(domain)[id] = Undefined}
      /\ \A id \in AllDocIds :
           server[id] = IF id \in {job.cleaned[domain][i] : i \in 1..Len(job.cleaned[domain])}
                        THEN NoBody
                        ELSE IF UploadsOf(domain, id) # {}
                        THEN [body |-> job.uploads[DomainOf(id)][CHOOSE i \in UploadsOf(domain, id) : TRUE].body,
                              hash |-> TargetHash(domain)[id]]
                        ELSE IF id \in DocIds(domain) THEN job.before[id] ELSE server[id]

\* A restore to the first of two snapshots that uploads the older version
\* of one document and cleans a document of another domain.
C21_Witness ==
  /\ job.op = "restore"
  /\ ~job.merge
  /\ Len(backupInfo.snapshots) = 2
  /\ Len(RestoredSnapshots) = 1
  /\ job.uploads[DomainTask] # <<>>
  /\ job.cleaned[DomainSpace] # <<>>

\* C26: a backup run started when the last transaction is the one the
\* manifest names, without force, leaves the manifest and every file of the
\* backup storage as they were.
C26_NoChangeNoBackup ==
  [][(job'.op = "backup" /\ job' # job /\ lastTx = backupInfo.lastTxId /\ ~job'.force)
       => (backupInfo' = backupInfo /\ job'.skipped)]_vars

\* A skipped run on a manifest that has a snapshot.
C26_Witness ==
  /\ job.op = "backup"
  /\ job.skipped
  /\ ~job.force
  /\ backupInfo.snapshots # <<>>
  /\ lastTx = backupInfo.lastTxId

\* What a compaction run that meets the snapshot count must leave: one
\* snapshot, in every domain the digest of the snapshots it replaced, and no
\* file deleted before the digests and the manifest that name the new
\* snapshot were written.
Compacted ==
  /\ Len(backupInfo.snapshots) = 1
  /\ \A domain \in DOMAIN NoDomains :
       HashOf(loadDigest(backupInfo.snapshots, domain, NoDate))
         = HashOf(loadDigest(job.replaced, domain, NoDate))
  /\ \A i \in 1..Len(job.events) :
       job.events[i] = "delete" =>
         \A j \in 1..Len(job.events) :
           job.events[j] = "writeChanges" =>
             \E m \in (j + 1)..(i - 1) : job.events[m] = "writeFile"

\* C22 as stated: compactBackup on any manifest that has the minimum number
\* of snapshots, or with force, leaves one snapshot with the digests of the
\* snapshots it replaced, deleting old files only after writing the new.
C22_CompactedToOne ==
  (/\ job.op = "compact"
   /\ job.replaced # <<>>
   /\ (Len(job.replaced) >= CompactFrom \/ job.force)) => Compacted

\* C22 for manifests of version 0.6.2: compactBackup on such a manifest that
\* has the minimum number of snapshots, or with force, leaves one snapshot
\* with the digests of the snapshots it replaced, deleting old files only
\* after writing the new.
C22_CompactedOfVersion ==
  (/\ job.op = "compact"
   /\ job.replaced # <<>>
   /\ job.version = "0.6.2"
   /\ (Len(job.replaced) >= CompactFrom \/ job.force)) => Compacted

\* An unforced compaction of two snapshots, the second of which removed a
\* document, that took documents over and deleted old files.
C22_Witness ==
  /\ job.op = "compact"
  /\ ~job.force
  /\ ~job.skipped
  /\ Len(job.replaced) = 2
  /\ \E i \in 1..Len(job.replaced[2].domains[DomainTask].records) :
       job.replaced[2].domains[DomainTask].records[i].removed # <<>>
  /\ loadDigest(backupInfo.snapshots, DomainTask, NoDate) # <<>>
  /\ \E i \in 1..Len(job.events) : job.events[i] = "delete"

\* C25: once the timer of the backup has fired, the run writes no further
\* document to an archive file, starts no further domain, and writes no
\* manifest whose lastTxId is the last transaction of the workspace.
C25_CanceledStops ==
  [][(running.canceled /\ running'.pc # "idle") =>
       /\ running'.packed = running.packed
       /\ running'.started = running.started
       /\ (running'.infoFile # running.infoFile
             => running'.infoFile.lastTxId # running.lastTxId)]_vars

\* A run that was cancelled after it had packed documents, with a domain left.
C25_Witness ==
  /\ running.pc = "done"
  /\ running.canceled
  /\ running.packed > 0
  /\ running.domains # <<>>
  /\ running.infoFile.lastTxId # running.lastTxId

\* C24: a scan of a domain whose loadChunk calls fail comes to an end: the
\* run does not stay in loadChangesFromServer for ever.
C24_ScanEnds == (running.pc = "scan") ~> (running.pc # "scan")

\* The cool-downs after n failed calls: 1, 2, ..., and none after the last.
CoolDowns(n) == [i \in 1..Min(n, 4) |-> i]

\* C23: restore calls processDomain of a domain at most 5 times, not again
\* after a call went through, waits one unit more after each failure, and
\* after the fifth failure goes on with the next domain.
C23_RetriesThenNext ==
  /\ [](\A d \in DOMAIN restoring.attempts :
          /\ restoring.attempts[d] <= 5
          /\ restoring.failures[d] =
               restoring.attempts[d] - (IF restoring.outcome[d] = "done" THEN 1 ELSE 0)
          /\ (restoring.pc # "wait" \/ restoring.c # d)
               => restoring.waits[d] = CoolDowns(restoring.failures[d])
          /\ (restoring.pc = "wait" /\ restoring.c = d)
               => restoring.waits[d] = CoolDowns(restoring.failures[d] - 1)
          /\ restoring.outcome[d] = "failed" => restoring.failures[d] = 5)
  /\ [][\A d \in DOMAIN restoring.attempts :
          /\ (restoring.outcome[d] # "none" /\ restoring'.pc # "idle")
               => /\ restoring'.attempts[d] = restoring.attempts[d]
                  /\ restoring'.waits[d] = restoring.waits[d]
          /\ (restoring.failures[d] = 5 /\ restoring.c = d /\ restoring.pc = "try")
               => restoring'.pc = "domain"]_vars

\* A domain restored at the third call and one given up after the fifth.
C23_Witness ==
  /\ restoring.pc = "done"
  /\ \E d \in DOMAIN restoring.attempts :
       /\ restoring.outcome[d] = "done"
       /\ restoring.attempts[d] = 3
       /\ restoring.waits[d] = <<1, 2>>
  /\ \E e \in DOMAIN restoring.attempts :
       /\ restoring.outcome[e] = "failed"
       /\ restoring.waits[e] = <<1, 2, 3, 4>>

\* C27: with the documents fixed, the passes of the pipeline come to a state
\* in which the field stage has no document left to process, and stay there.
C27_Converges == <>[](indexing.pc = "idle" /\ ToIndex(indexing.states) = {})

\* C28: a document of the batch that throws does not get the watermark of
\* the stage and is not marked for removal, and the other documents of the
\* batch are processed all the same.
C28_ThrowSkipsOne ==
  /\ \A d \in indexing.threw :
       /\ ~indexing.states[d].stage
       /\ d \notin indexing.advanced
       /\ d \notin indexing.marked
       /\ ~indexing.states[d].removed
  /\ (indexing.pc \in {"remove", "done"} /\ indexing.queue = <<>>) =>
       \A i \in 1..Len(indexing.toIndex) :
         indexing.source[indexing.toIndex[i]] # NoValue
           => indexing.toIndex[i] \in indexing.advanced \cup indexing.threw

\* The first document of three threw, the two after it got the watermark.
C28_Witness ==
  /\ indexing.pc = "done"
  /\ ~indexing.cancelling
  /\ indexing.toIndex = <<1, 2, 3>>
  /\ indexing.threw = {1}
  /\ indexing.advanced = {2, 3}

\* C29: once pipeline.cancelling is set, collect changes no DocIndexState any
\* more: no watermark is advanced and no document is marked for removal.
C29_CancelStops ==
  [][(indexing.cancelling /\ indexing'.pc # "idle") =>
       /\ indexing'.advanced = indexing.advanced
       /\ indexing'.marked = indexing.marked
       /\ indexing'.states = indexing.states]_vars

\* The transactions the derivation made in the last call (TxFactory marks
\* them as derived) that remove the document id.
RemovesOf(id) ==
  {i \in 1..Len(callDerived) :
     /\ callDerived[i].space = SpaceDerivedTx
     /\ extractTx(callDerived[i]).cls = "TxRemoveDoc"
     /\ extractTx(callDerived[i]).objectId = id}

\* C30: the transactions the derivation makes in one processTxes call, over
\* all passes, hold at most one remove transaction for a document id.
C30_RemovedOnce == \A id \in 1..MaxDocs : Cardinality(RemovesOf(id)) <= 1

\* ---------------------------------------------------------------------------
\* Frame of a removal
\* ---------------------------------------------------------------------------

\* The documents the last call was asked to remove.
RemoveTargets ==
  {extractTx(Processed[i]).objectId
     : i \in {j \in 1..Len(Processed) : extractTx(Processed[j]).cls = "TxRemoveDoc"}}

\* The documents the cascading-removal rules reach from the targets in the
\* store the call started from.
RemovalClosure ==
  RemoveTargets
    \cup {y \in Ids : \E t \in RemoveTargets : RemovalPath(docs0, t, y, MaxDocs)}

\* The last call processed removals and nothing else.
OnlyRemoves ==
  /\ callEnd # "none"
  /\ Processed # <<>>
  /\ \A i \in 1..Len(Processed) : extractTx(Processed[i]).cls = "TxRemoveDoc"

\* C31 as stated: removing a document removes only that document and the
\* documents reachable from it by the cascading-removal rules; every other
\* document stays queryable and is stored as before, counters included.
C31_OthersUnchanged ==
  OnlyRemoves => \A x \in Ids \ RemovalClosure : docs[x] = docs0[x]

\* A stored document with its collection counters left out.
SansCounters(doc) == [doc EXCEPT !.cnt = [c \in CollectionNames |-> 0]]

\* C31 amended: a removal removes only the document and the documents
\* reachable from it by the cascading-removal rules; every other document
\* stays queryable with its attributes as before, and the only change to it
\* is the collection counter of a document that a removed document was
\* attached to.
C31_OthersKept ==
  OnlyRemoves =>
    \A x \in Ids \ RemovalClosure :
      /\ SansCounters(docs[x]) = SansCounters(docs0[x])
      /\ docs[x] # docs0[x] =>
           \E y \in RemovalClosure : Live(docs0, y) /\ docs0[y].attachedTo = x

\* A removal with a cascade, next to a document that is not reached.
C31_Witness ==
  /\ OnlyRemoves
  /\ callEnd = "returned"
  /\ \E t \in RemoveTargets : \E y \in RemovalClosure \ RemoveTargets :
       Live(docs0, t) /\ ~Live(docs, t) /\ ~Live(docs, y)
  /\ \E x \in Ids \ RemovalClosure : Live(docs0, x) /\ Live(docs, x)

\* ---------------------------------------------------------------------------
\* Counter updates of a re-parenting update
\* ---------------------------------------------------------------------------

\* The store the derivation of the last call read: the one routeTx left.
RoutedDocs == processSteps(docs0, model0, hashes0, callTxes).routed.docs

\* A TxCollectionCUD that wraps an update setting attachedTo to another
\* document than the one the wrapper names.
IsReparent(t) ==
  /\ t.cls = "TxCollectionCUD"
  /\ t.tx[1].cls = "TxUpdateDoc"
  /\ t.tx[1].ops.attachedTo \notin {NoId, t.objectId}

\* The last call processed one TxCollectionCUD, a re-parenting update, and no
\* removal; Reparented is that transaction.
OneReparent ==
  /\ callEnd = "returned"
  /\ Cardinality({i \in 1..Len(Processed) : Processed[i].cls = "TxCollectionCUD"}) = 1
  /\ \A i \in 1..Len(Processed) :
       /\ Processed[i].cls = "TxCollectionCUD" => IsReparent(Processed[i])
       /\ extractTx(Processed[i]).cls # "TxRemoveDoc"

Reparented == Processed[CHOOSE i \in 1..Len(Processed) : Processed[i].cls = "TxCollectionCUD"]

\* The counter updates among the derived transactions of the last call, each
\* as the document it updates and its $inc.
CounterUpdates ==
  LET incs == SelectSeq(callDerived, LAMBDA t : t.ops.inc # <<>>)
  IN [i \in 1..Len(incs) |-> [id |-> incs[i].objectId, inc |-> incs[i].ops.inc]]

C32_WitnessOldGone ==
  /\ OneReparent
  /\ Live(RoutedDocs, Reparented.tx[1].ops.attachedTo)
  /\ ~Live(RoutedDocs, Reparented.objectId)
  /\ Len(CounterUpdates) = 1

\* ---------------------------------------------------------------------------
\* Parents of the counter updates
\* ---------------------------------------------------------------------------

\* removedMap after processRemove of the first derivation pass of the last
\* call: the documents the batch removed and the ones the cascade scheduled.
ScheduledForRemoval == processSteps(docs0, model0, hashes0, callTxes).dv.removed

\* C33: no derived counter update of a call is for a parent that is absent
\* from storage, that removedMap records as scheduled for removal, or whose
\* class lies in the model domain.
C33_CounterParentsStored ==
  callEnd = "returned" =>
    \A i \in 1..Len(CounterUpdates) :
      LET parent == CounterUpdates[i].id
      IN /\ Live(RoutedDocs, parent)
         /\ ScheduledForRemoval[parent] = NoDoc
         /\ getDomain(RoutedDocs[parent].cls) # DOMAIN_MODEL

\* ---------------------------------------------------------------------------
\* Move of a document to another space
\* ---------------------------------------------------------------------------

\* An update that changes the space of its document.
IsMove(t) ==
  /\ extractTx(t).cls = "TxUpdateDoc"
  /\ extractTx(t).ops.space \notin {"", extractTx(t).objectSpace}

\* x was, when the batch had been applied, in the space from and attached to
\* top, or attached to such a document.
RECURSIVE MovesWith(_, _, _, _)
MovesWith(x, top, from, n) ==
  /\ n > 0
  /\ Live(RoutedDocs, x)
  /\ RoutedDocs[x].space = from
  /\ RoutedDocs[x].attachedTo # NoId
  /\ \/ RoutedDocs[x].attachedTo = top
     \/ MovesWith(RoutedDocs[x].attachedTo, top, from, n - 1)

\* C34: after a call has applied a TxUpdateDoc that changes the space of D
\* from S1 to S2, every document attached to D that was in S1 is in S2, and
\* so are the documents attached to those that were in S1; when the move is
\* the only one of the batch, the documents attached to D that were in
\* another space keep their space.
C34_AttachedFollowMove ==
  callEnd = "returned" =>
    \A i \in 1..Len(Processed) :
      IsMove(Processed[i]) =>
        LET rtx == extractTx(Processed[i])
        IN /\ \A x \in Ids :
                (MovesWith(x, rtx.objectId, rtx.objectSpace, MaxDocs) /\ Live(docs, x))
                  => docs[x].space = rtx.ops.space
           /\ Cardinality({k \in 1..Len(Processed) : IsMove(Processed[k])}) = 1 =>
                \A x \in Ids :
                  (/\ Live(RoutedDocs, x) /\ Live(docs, x)
                   /\ RoutedDocs[x].attachedTo = rtx.objectId
                   /\ RoutedDocs[x].space # rtx.objectSpace)
                    => docs[x].space = RoutedDocs[x].space

\* A move that takes an attached document and a document attached to that
\* one along.
C34_Witness ==
  /\ callEnd = "returned"
  /\ \E i \in 1..Len(Processed) :
       /\ IsMove(Processed[i])
       /\ \E x, y \in Ids :
            /\ x # y
            /\ RoutedDocs[x].attachedTo = extractTx(Processed[i]).objectId
            /\ RoutedDocs[y].attachedTo = x
            /\ MovesWith(y, extractTx(Processed[i]).objectId, extractTx(Processed[i]).objectSpace, MaxDocs)
            /\ docs[y].space = extractTx(Processed[i]).ops.space
            /\ docs[x].space = extractTx(Processed[i]).ops.space

\* A move that leaves an attached document of a third space where it is.
C34_WitnessOtherSpace ==
  /\ callEnd = "returned"
  /\ \E i \in 1..Len(Processed) :
       /\ IsMove(Processed[i])
       /\ \E x \in Ids :
            /\ Live(RoutedDocs, x) /\ Live(docs, x)
            /\ RoutedDocs[x].attachedTo = extractTx(Processed[i]).objectId
            /\ RoutedDocs[x].space # extractTx(Processed[i]).objectSpace
            /\ docs[x].space = RoutedDocs[x].space
            /\ docs[x].space # extractTx(Processed[i]).ops.space

\* ---------------------------------------------------------------------------
\* The transaction log
\* ---------------------------------------------------------------------------

\* Client batches that hold, next to creates and model transactions,
\* transactions on an object of the transient domain and transactions a
\* client sends in the derived-transaction space.
LogTxs(sim, last) ==
  CreateRootTxs(last) \cup {TempTx, CfgTx}
    \cup {[t EXCEPT !.space = SpaceDerivedTx] : t \in MoveTxs(sim)}

RECURSIVE LogBatchesFrom(_, _, _)
LogBatchesFrom(store, given, n) ==
  IF n = 0 THEN {<<>>}
  ELSE UNION {{<<>>}
                \cup {<<createTxApplyIf("s1", <<[cls |-> "Root", id |-> 1]>>, <<>>, <<t>>, ClientTime)>>
                        : t \in LogTxs(sim, last)}
                \cup UNION {{<<t>> \o rest
                               : rest \in LogBatchesFrom(simulate(sim, t), lastIdAfter(last, <<t>>), n - 1)}
                              : t \in LogTxs(sim, last)}
               : sim \in {store}, last \in {given}}

NextLog ==
  \/ \E txes \in LogBatchesFrom(docs, lastId, Min(MaxBatch, MaxSent - sent)) : Submit(txes)
  \/ Deliver

SpecLog == Init /\ [][NextLog]_vars

\* The transactions of the last batch, each TxApplyIf and its embedded
\* transactions included.
RECURSIVE BatchTxs(_)
BatchTxs(txes) ==
  IF txes = <<>> THEN <<>>
  ELSE <<Head(txes)>> \o BatchTxs(Head(txes).txes) \o BatchTxs(Tail(txes))

\* A transaction the log is to hold: not of the derived-transaction space,
\* its object class not of the transient domain.
ForLog(t) == t.space # SpaceDerivedTx /\ getDomain(t.objectClass) # DOMAIN_TRANSIENT

\* The call got as far as the adapters of the documents.
ReachedAdapters == callEnd # "none" /\ failedAt \notin {"model", "log"}

\* C35 as stated: every transaction of a client batch that is not in the
\* derived-transaction space and whose object class is not in the transient
\* domain is written to the transaction log exactly once.
C35_EveryTxLogged ==
  ReachedAdapters => txLogged = SelectSeq(BatchTxs(callTxes), ForLog)

\* C35 amended: the transactions a call processes (the ones of the batch
\* that are no TxApplyIf and the embedded ones of every TxApplyIf that
\* passes) that are not in the derived-transaction space and whose object
\* class is not in the transient domain are written to the transaction log
\* once each, in their order, before an adapter applies a transaction of
\* the batch; the others are applied and not written to the log.
C35_ProcessedLogged ==
  /\ ReachedAdapters => txLogged = SelectSeq(Processed, ForLog)
  /\ (callEnd # "none" /\ ~ReachedAdapters) =>
       /\ docs = docs0
       /\ \A k \in 1..Len(result) : result[k].kind # "tx"
  /\ callEnd = "returned" =>
       \A i \in 1..Len(Processed) :
         \E k \in 1..Len(result) : result[k] = TxResult(extractTx(Processed[i]))

\* A call that applied a logged transaction, one of the transient domain and
\* one of the derived-transaction space.
C35_Witness ==
  /\ callEnd = "returned"
  /\ txLogged # <<>>
  /\ \E i, k \in 1..Len(Processed) :
       /\ getDomain(Processed[i].objectClass) = DOMAIN_TRANSIENT
       /\ Processed[k].space = SpaceDerivedTx
       /\ docs[Processed[k].objectId].space # docs0[Processed[k].objectId].space

\* ---------------------------------------------------------------------------
\* The list handed to the indexing pipeline
\* ---------------------------------------------------------------------------

\* The transactions the derivation of the last call produced.
DerivedByEngine == processSteps(docs0, model0, hashes0, callTxes).pd.derived

\* C36: the list a returned call hands to the indexing pipeline holds every
\* applied transaction of the batch (the embedded ones of each passing
\* TxApplyIf included) and every derived transaction, each once.
C36_NotifiedOnce ==
  callEnd = "returned" => ftTx = Processed \o DerivedByEngine

\* ---------------------------------------------------------------------------
\* Documents a collect pass marks for removal
\* ---------------------------------------------------------------------------

\* The documents handed to the pass.
PassDocs == {indexing.toIndex[i] : i \in 1..Len(indexing.toIndex)}

\* C37: at the end of a collect pass that was not cancelled, every document
\* of the input batch whose source object no longer exists is marked for
\* removal, and no document whose source object exists is.
C37_MissingMarked ==
  (indexing.pc = "done" /\ ~indexing.cancelling) =>
    /\ indexing.marked \subseteq PassDocs
    /\ \A d \in PassDocs :
         /\ (indexing.source[d] = NoValue) <=> (d \in indexing.marked)
         /\ indexing.states[d].removed <=> (d \in indexing.marked)

\* A pass that ended with two documents marked and with a document that
\* threw and stays.
C37_Witness ==
  /\ indexing.pc = "done"
  /\ ~indexing.cancelling
  /\ Cardinality(indexing.marked) = 2
  /\ indexing.threw # {}
  /\ indexing.threw \cap indexing.marked = {}

\* ---------------------------------------------------------------------------
\* A scan that restarts
\* ---------------------------------------------------------------------------

\* The scan of the task domain as the last backup run made it, with the
\* loadChunk call that rejected, and the scan of the same stream and digest
\* with every call answering.
ScanOf(rejects) ==
  loadChangesFromServer(Stream(server, DomainTask), job.digest[DomainTask], NoChanges, rejects)

\* C38: when a loadChunk call fails and the scan restarts with a fresh
\* cursor, the added, updated and removed sets and the ids queued for
\* retrieval are those of a scan without a failure.
C38_RescanSame ==
  (job.op = "backup" /\ ~job.skipped /\ job.rejects > 0) =>
    /\ ScanOf(job.rejects).changes = ScanOf(0).changes
    /\ MapKeys(ScanOf(job.rejects).digest) = MapKeys(ScanOf(0).digest)
    /\ ScanOf(job.rejects).needRetrieveChunks = ScanOf(0).needRetrieveChunks

\* ---------------------------------------------------------------------------
\* The digest of a finished backup
\* ---------------------------------------------------------------------------

\* The cumulative digest of the persisted manifest is the id-to-hash map of
\* the server for the domain.
DigestIsServer(domain) ==
  LET left == loadDigest(backupInfo.snapshots, domain, NoDate)
  IN /\ \A id \in DocIds(domain) :
          MapGet(left, id) = IF server[id] # NoBody THEN server[id].hash ELSE Undefined
     /\ \A i \in 1..Len(left) : left[i][1] \in DocIds(domain)

\* C39: after a backup run that ended without cancellation or error, the
\* documents of the server unchanged, for every backed-up domain the
\* cumulative digest loadDigest computes from the persisted manifest equals
\* the id-to-hash map of the server.
C39_DigestMatchesServer ==
  (job.op = "backup" /\ ~job.skipped) =>
    \A domain \in StoredDomains \ job.skipDomains : DigestIsServer(domain)

\* The same for the runs in which every loadChunk call answered.
C39_DigestMatchesUnfailed ==
  (job.op = "backup" /\ ~job.skipped /\ job.rejects = 0) =>
    \A domain \in StoredDomains \ job.skipDomains : DigestIsServer(domain)

\* ---------------------------------------------------------------------------
\* The manifests a backup run persists
\* ---------------------------------------------------------------------------

\* The ids a digest file lists as added or updated.
ListedIn(file) ==
  LET added == Section(file)
      updated == Section(added.rest)
  IN {added.items[i][1] : i \in 1..Len(added.items)}
       \cup {updated.items[i][1] : i \in 1..Len(updated.items)}

\* The ids whose body an archive file holds.
ArchivedIn(archive) == {archive[i].id : i \in 1..Len(archive)}

\* Every id a digest file of the manifest lists as added or updated has its
\* body in an archive file of the same domain entry of the manifest.
ManifestConsistent(info) ==
  \A s \in 1..Len(info.snapshots) : \A domain \in DOMAIN info.snapshots[s].domains :
    LET data == info.snapshots[s].domains[domain]
    IN \A f \in 1..Len(data.snapshots) :
         \A id \in ListedIn(data.snapshots[f]) :
           \E a \in 1..Len(data.storage) : id \in ArchivedIn(data.storage[a])

\* C40: every manifest a backup run persists, after a roll or at the end of
\* a domain, is consistent: each id a digest file of the manifest lists as
\* added or updated has its body in an archive file the manifest names.
C40_PersistedConsistent == ManifestConsistent(running.infoFile)

\* A manifest persisted after a roll, the domain not yet finished: it names
\* a digest file and the archive file with the bodies of its ids, while a
\* batch is still to be retrieved.
C40_Witness ==
  /\ running.pc \in {"retrieve", "loadDocs"}
  /\ running.infoFile # running.info
  /\ running.infoFile.snapshots # <<>>
  /\ \E domain \in StoredDomains :
       LET data == running.infoFile.snapshots[Len(running.infoFile.snapshots)].domains[domain]
       IN /\ domain = running.domain
          /\ data.snapshots # <<>>
          /\ ListedIn(data.snapshots[1]) # {}

=============================================================================
